---------------------------- MODULE Spec2Model ----------------------------
(***************************************************************************)
(* A model of smtpymailer's record validation (src/smtpymailer/           *)
(* validation.py): the SPF evaluator spf_check as a machine of Python     *)
(* frames, and the pure validators is_ip_in_network, get_address_type,    *)
(* validate_dkim_record and validate_dmarc_record as operators over       *)
(* strings.  Strings are TLA+ strings read character by character, so     *)
(* that splitting, stripping and parsing are computed as the code         *)
(* computes them.                                                         *)
(***************************************************************************)
EXTENDS Integers, Sequences, FiniteSets, TLC

VARIABLES
    call,       \* the top-level call: [fn, ...arguments], or [fn |-> "idle"]
    stack,      \* spf_check: the Python frames, innermost last
    dnsLog,     \* spf_check: the lookups issued so far, in order
    outcome,    \* what the top-level call produced: pending, return or raise
    soup,       \* html_parse: the parsed document, a sequence of nodes
    message,    \* the MIME message: the parts attached to it, in order
    netLog,     \* the requests sent to the network, in order, with the result
    previous    \* what an earlier call on the same document left behind

htmlVars == << soup, message, netLog, previous >>

vars == << call, stack, dnsLog, outcome, soup, message, netLog, previous >>

(***************************************************************************)
(* Bounds of the model.                                                    *)
(***************************************************************************)
\* Mechanism tokens after "v=spf1" in a generated SPF record.
MaxTokens == 2
\* Frames the interpreter allows before it raises RecursionError.
MaxDepth == 3
\* Tags after "v=DMARC1;" in a generated DMARC record.
MaxTags == 2
\* Characters of the p= payload of a generated DKIM record, pads aside.
MaxPayload == 4

(***************************************************************************)
(* Python values: None, str, list of str, int.                             *)
(***************************************************************************)
PyNone == [t |-> "none", v |-> << >>]

PyStr(s) == [t |-> "str", v |-> << s >>]

PyList(l) == [t |-> "list", v |-> l]

PyInt(n) == [t |-> "int", v |-> << n >>]

IsStr(x) == x.t = "str"

StrOf(x) == x.v[1]

\* Python truthiness: None, "", [] and 0 are falsy.
Truthy(x) ==
    CASE x.t = "none" -> FALSE
      [] x.t = "str"  -> StrOf(x) # ""
      [] x.t = "list" -> x.v # << >>
      [] x.t = "html" -> x.v # << >>
      [] x.t = "int"  -> x.v[1] # 0
      [] x.t = "bool" -> x.v[1]

PyBool(b) == [t |-> "bool", v |-> << b >>]

(***************************************************************************)
(* str operations.                                                         *)
(***************************************************************************)
\* s[i-1:j], a slice: positions outside the string are cut off.
Slice(s, i, j) ==
    LET a == IF i < 1 THEN 1 ELSE i
        b == IF j > Len(s) THEN Len(s) ELSE j
    IN  IF a > b THEN "" ELSE SubSeq(s, a, b)

\* The character at position i, "" outside the string.
Char(s, i) == Slice(s, i, i)

Digits == {"0", "1", "2", "3", "4", "5", "6", "7", "8", "9"}

DigitVal(c) ==
    CASE c = "0" -> 0 [] c = "1" -> 1 [] c = "2" -> 2 [] c = "3" -> 3
      [] c = "4" -> 4 [] c = "5" -> 5 [] c = "6" -> 6 [] c = "7" -> 7
      [] c = "8" -> 8 [] c = "9" -> 9

HexDigits == Digits \cup {"a", "b", "c", "d", "e", "f", "A", "B", "C", "D", "E", "F"}

HexVal(c) ==
    CASE c \in Digits -> DigitVal(c)
      [] c \in {"a", "A"} -> 10 [] c \in {"b", "B"} -> 11
      [] c \in {"c", "C"} -> 12 [] c \in {"d", "D"} -> 13
      [] c \in {"e", "E"} -> 14 [] c \in {"f", "F"} -> 15

LowerLetters ==
    {"a", "b", "c", "d", "e", "f", "g", "h", "i", "j", "k", "l", "m",
     "n", "o", "p", "q", "r", "s", "t", "u", "v", "w", "x", "y", "z"}

UpperLetters ==
    {"A", "B", "C", "D", "E", "F", "G", "H", "I", "J", "K", "L", "M",
     "N", "O", "P", "Q", "R", "S", "T", "U", "V", "W", "X", "Y", "Z"}

Letters == LowerLetters \cup UpperLetters

\* The whitespace str.split() and str.strip() act on.
Whitespace == {" ", "\t", "\n", "\r"}

AllIn(s, set) == \A i \in 1..Len(s) : Char(s, i) \in set

Contains(s, c) == \E i \in 1..Len(s) : Char(s, i) = c

StartsWith(s, p) == Len(s) >= Len(p) /\ SubSeq(s, 1, Len(p)) = p

\* str.lower() on one character.
LowerChar(c) ==
    CASE c = "A" -> "a" [] c = "B" -> "b" [] c = "C" -> "c" [] c = "D" -> "d"
      [] c = "E" -> "e" [] c = "F" -> "f" [] c = "G" -> "g" [] c = "H" -> "h"
      [] c = "I" -> "i" [] c = "J" -> "j" [] c = "K" -> "k" [] c = "L" -> "l"
      [] c = "M" -> "m" [] c = "N" -> "n" [] c = "O" -> "o" [] c = "P" -> "p"
      [] c = "Q" -> "q" [] c = "R" -> "r" [] c = "S" -> "s" [] c = "T" -> "t"
      [] c = "U" -> "u" [] c = "V" -> "v" [] c = "W" -> "w" [] c = "X" -> "x"
      [] c = "Y" -> "y" [] c = "Z" -> "z" [] OTHER -> c

RECURSIVE Lower(_)
Lower(s) ==
    IF Len(s) <= 1 THEN LowerChar(s)
    ELSE Lower(Slice(s, 1, Len(s) \div 2)) \o Lower(Slice(s, Len(s) \div 2 + 1, Len(s)))

\* str.split(c) for a one-character separator: empty pieces are kept.
RECURSIVE SplitFrom(_, _, _, _)
SplitFrom(s, c, i, start) ==
    IF i > Len(s) THEN << Slice(s, start, Len(s)) >>
    ELSE IF Char(s, i) = c
         THEN << Slice(s, start, i - 1) >> \o SplitFrom(s, c, i + 1, i + 1)
         ELSE SplitFrom(s, c, i + 1, start)

SplitOn(s, c) == SplitFrom(s, c, 1, 1)

\* str.split() without a separator: runs of whitespace separate, and no
\* empty piece is produced.
RECURSIVE SplitWsFrom(_, _, _)
SplitWsFrom(s, i, start) ==
    IF i > Len(s)
    THEN IF start <= Len(s) THEN << Slice(s, start, Len(s)) >> ELSE << >>
    ELSE IF Char(s, i) \in Whitespace
         THEN (IF start < i THEN << Slice(s, start, i - 1) >> ELSE << >>)
              \o SplitWsFrom(s, i + 1, i + 1)
         ELSE SplitWsFrom(s, i + 1, start)

SplitWs(s) == SplitWsFrom(s, 1, 1)

\* sep.join(parts)
RECURSIVE Join(_, _)
Join(parts, sep) ==
    IF parts = << >> THEN ""
    ELSE IF Len(parts) = 1 THEN parts[1]
    ELSE parts[1] \o sep \o Join(Tail(parts), sep)

\* str.strip(chars): the characters of chars are removed from both ends.
RECURSIVE LStrip(_, _)
LStrip(s, chars) ==
    IF s # "" /\ Char(s, 1) \in chars THEN LStrip(Slice(s, 2, Len(s)), chars) ELSE s

RECURSIVE RStrip(_, _)
RStrip(s, chars) ==
    IF s # "" /\ Char(s, Len(s)) \in chars
    THEN RStrip(Slice(s, 1, Len(s) - 1), chars) ELSE s

Strip(s, chars) == RStrip(LStrip(s, chars), chars)

\* str.replace(c, "") for a one-character c.
RECURSIVE Remove(_, _)
Remove(s, c) ==
    IF Len(s) <= 1 THEN (IF s = c THEN "" ELSE s)
    ELSE Remove(Slice(s, 1, Len(s) \div 2), c)
         \o Remove(Slice(s, Len(s) \div 2 + 1, Len(s)), c)

\* int(s) for a string of decimal digits.
RECURSIVE DecVal(_)
DecVal(s) ==
    IF s = "" THEN 0
    ELSE 10 * DecVal(Slice(s, 1, Len(s) - 1)) + DigitVal(Char(s, Len(s)))

\* int(s, 16) for a string of hex digits.
RECURSIVE HexStrVal(_)
HexStrVal(s) ==
    IF s = "" THEN 0
    ELSE 16 * HexStrVal(Slice(s, 1, Len(s) - 1)) + HexVal(Char(s, Len(s)))

Pow2(n) == 2 ^ n

(***************************************************************************)
(* Outcomes of a Python call: a returned value or a raised exception.      *)
(***************************************************************************)
\* e is the exception's class and m its message.
Return(v) == [k |-> "return", v |-> v, e |-> "", m |-> ""]

Raise(e, m) == [k |-> "raise", v |-> PyNone, e |-> e, m |-> m]

Pending == [k |-> "pending", v |-> PyNone, e |-> "", m |-> ""]

(***************************************************************************)
(* The standard library's ipaddress parsing, as validation.py uses it.     *)
(* A parsed address is [ok, ver, g]: g holds the 4 octets of an IPv4       *)
(* address or the 8 hextets of an IPv6 address; a parsed interface adds    *)
(* plen, the prefix length of its network.                                 *)
(***************************************************************************)
NoAddr == [ok |-> FALSE, ver |-> 0, g |-> << >>]

\* The first of two parse results that succeeded, as a try/except chain picks.
FirstOk(a, b) == IF a.ok THEN a ELSE b

\* _BaseV4._parse_octet: 1 to 3 decimal digits, no leading zero, at most 255.
OctetOk(o) ==
    /\ o # ""
    /\ AllIn(o, Digits)
    /\ Len(o) <= 3
    /\ (o = "0" \/ Char(o, 1) # "0")
    /\ DecVal(o) <= 255

\* _BaseV4._ip_int_from_string on the split octets: exactly four, all valid.
IPv4FromOctets(octets) ==
    IF Len(octets) # 4 \/ \E i \in 1..Len(octets) : ~OctetOk(octets[i])
    THEN NoAddr
    ELSE [ok |-> TRUE, ver |-> 4, g |-> [i \in 1..4 |-> DecVal(octets[i])]]

\* _BaseV4._ip_int_from_string
IPv4FromString(s) == IPv4FromOctets(SplitOn(s, "."))

\* IPv4Address(str): a "/" is refused before the octets are read.
IPv4Address(s) == IF Contains(s, "/") THEN NoAddr ELSE IPv4FromString(s)

\* _BaseV6._parse_hextet on one part of the split address.
HextetOf(p, good) ==
    [e |-> p = "", ok |-> good, val |-> IF good THEN HexStrVal(p) ELSE 0]

Hextet(p) == HextetOf(p, p # "" /\ AllIn(p, HexDigits) /\ Len(p) <= 4)

Hextets(raw) == [i \in 1..Len(raw) |-> Hextet(raw[i])]

\* The two hextets an IPv4-style suffix stands for.
V6Suffix(v4) ==
    << [e |-> FALSE, ok |-> TRUE, val |-> v4.g[1] * 256 + v4.g[2]],
       [e |-> FALSE, ok |-> TRUE, val |-> v4.g[3] * 256 + v4.g[4]] >>

\* The parts once the suffix has parsed; << >> when it is no IPv4 address.
V6WithSuffix(head, v4) ==
    IF v4.ok THEN head \o V6Suffix(v4) ELSE << >>

\* The parts of an IPv6 string after the IPv4-style suffix, if any, has been
\* turned into two hextets.
V6PartsLast(raw, last) ==
    IF Contains(last, ".")
    THEN V6WithSuffix(Hextets(SubSeq(raw, 1, Len(raw) - 1)), IPv4Address(last))
    ELSE Hextets(raw)

V6Parts(raw) == V6PartsLast(raw, raw[Len(raw)])

\* No "::" in the address: eight parts, all of them hextets.
V6Full(parts) ==
    IF Len(parts) # 8 \/ \E i \in 1..Len(parts) : ~parts[i].ok THEN NoAddr
    ELSE [ok |-> TRUE, ver |-> 6, g |-> [i \in 1..8 |-> parts[i].val]]

\* A "::" with hi parts before it and lo parts after it.
V6Fill(parts, n, hi, lo) ==
    IF (parts[1].e /\ hi # 0) \/ (parts[n].e /\ lo # 0) \/ 8 - (hi + lo) < 1
    THEN NoAddr
    ELSE IF \/ \E i \in 1..hi : ~parts[i].ok
            \/ \E i \in (n - lo + 1)..n : ~parts[i].ok
         THEN NoAddr
    ELSE [ok |-> TRUE, ver |-> 6,
          g |-> [i \in 1..8 |->
                    IF i <= hi THEN parts[i].val
                    ELSE IF i <= 8 - lo THEN 0
                    ELSE parts[n - 8 + i].val]]

\* The "::" is the empty part at skip; a leading or trailing ":" adds an
\* empty part of its own, which is not counted.
V6Compressed(parts, n, skip) ==
    V6Fill(parts, n,
           IF parts[1].e THEN skip - 2 ELSE skip - 1,
           IF parts[n].e THEN n - skip - 1 ELSE n - skip)

V6Layout(parts, skips) ==
    IF Cardinality(skips) > 1 THEN NoAddr
    ELSE IF skips = {} THEN V6Full(parts)
    ELSE V6Compressed(parts, Len(parts), CHOOSE i \in skips : TRUE)

V6FromParts(parts) ==
    IF parts = << >> \/ Len(parts) > 9 THEN NoAddr
    ELSE V6Layout(parts, {i \in 2..(Len(parts) - 1) : parts[i].e})

V6FromRaw(raw) == IF Len(raw) < 3 THEN NoAddr ELSE V6FromParts(V6Parts(raw))

\* _BaseV6._ip_int_from_string
IPv6FromString(s) == IF s = "" THEN NoAddr ELSE V6FromRaw(SplitOn(s, ":"))

\* The address before a "%scope" suffix; "" when the suffix is malformed.
V6Unscoped(sc) ==
    IF Len(sc) = 1 \/ (Len(sc) = 2 /\ sc[2] # "") THEN sc[1] ELSE ""

\* IPv6Address(str): a "/" is refused and a "%scope" suffix is split off.
IPv6Address(s) ==
    IF Contains(s, "/") THEN NoAddr ELSE IPv6FromString(V6Unscoped(SplitOn(s, "%")))

\* ipaddress.ip_address: IPv4 first, then IPv6, else ValueError (ok = FALSE).
ip_address(s) == FirstOk(IPv4Address(s), IPv6Address(s))

PrefixOf(p, sig, max) ==
    IF p = "" \/ ~AllIn(p, Digits) \/ Len(sig) > 3 THEN -1
    ELSE IF DecVal(sig) > max THEN -1 ELSE DecVal(sig)

\* _prefix_from_prefix_string: decimal digits only, 0..max; -1 when refused.
PrefixFromPrefixString(p, max) == PrefixOf(p, LStrip(p, {"0"}), max)

\* Bit k (1 = most significant) of an address of groups of the given width.
BitAt(g, width, k) ==
    (g[((k - 1) \div width) + 1] \div Pow2(width - 1 - ((k - 1) % width))) % 2

\* The 32 bits of an IPv4 address, most significant first.
Bits32(g) == [k \in 1..32 |-> BitAt(g, 8, k)]

\* A netmask (ones then zeroes) or hostmask (zeroes then ones) as a prefix
\* length; -1 when the bits are neither.
MaskPrefix(bit, ones) ==
    IF \A k \in 1..31 : bit[k] = 0 => bit[k + 1] = 0 THEN ones
    ELSE IF \A k \in 1..31 : bit[k] = 1 => bit[k + 1] = 1 THEN 32 - ones
    ELSE -1

MaskBits(bit) == MaskPrefix(bit, Cardinality({k \in 1..32 : bit[k] = 1}))

MaskOf(m) == IF m.ok THEN MaskBits(Bits32(m.g)) ELSE -1

\* _prefix_from_ip_string: the dotted mask of an IPv4 interface.
PrefixFromIpString(p) == MaskOf(IPv4FromString(p))

NoIface == [ok |-> FALSE, ver |-> 0, g |-> << >>, plen |-> 0]

\* An address with the prefix length of its network.
Iface(a, plen) ==
    IF ~a.ok \/ plen < 0 THEN NoIface
    ELSE [ok |-> TRUE, ver |-> a.ver, g |-> a.g, plen |-> plen]

\* The first mask reading that was accepted.
FirstPrefix(p1, p2) == IF p1 >= 0 THEN p1 ELSE p2

\* IPv4Network's mask: a prefix length, else a dotted netmask or hostmask.
IPv4Mask(m) == FirstPrefix(PrefixFromPrefixString(m, 32), PrefixFromIpString(m))

IPv4Split(ap) ==
    IF Len(ap) > 2 THEN NoIface
    ELSE Iface(IPv4Address(ap[1]), IF Len(ap) = 1 THEN 32 ELSE IPv4Mask(ap[2]))

\* IPv4Interface(str): address "/" mask.
IPv4Interface(s) == IPv4Split(SplitOn(s, "/"))

IPv6Split(ap) ==
    IF Len(ap) > 2 THEN NoIface
    ELSE Iface(IPv6Address(ap[1]),
               IF Len(ap) = 1 THEN 128 ELSE PrefixFromPrefixString(ap[2], 128))

\* IPv6Interface(str): address "/" prefix length.
IPv6Interface(s) == IPv6Split(SplitOn(s, "/"))

\* ipaddress.ip_interface: IPv4 first, then IPv6, else ValueError.
ip_interface(s) == FirstOk(IPv4Interface(s), IPv6Interface(s))

\* _BaseNetwork.__contains__ on ip_interface(network).network: False across
\* versions, else the address and the interface agree on the first plen bits.
SamePrefix(a, n, width) ==
    \A k \in 1..n.plen : BitAt(a.g, width, k) = BitAt(n.g, width, k)

InNetwork(a, n) == a.ver = n.ver /\ SamePrefix(a, n, IF n.ver = 4 THEN 8 ELSE 16)

(***************************************************************************)
(* validation.is_ip_in_network                                             *)
(***************************************************************************)
\* A membership test that answers False for input that does not parse.
IpInNetworkFalseOnError(a, n) ==
    IF ~a.ok \/ ~n.ok THEN Return(PyBool(FALSE))
    ELSE Return(PyBool(InNetwork(a, n)))

\* Lines 140-147: both parse, then the membership test; a parse failure is
\* re-raised as ValueError.
IpInNetwork(a, n) ==
    IF ~a.ok \/ ~n.ok THEN Raise("ValueError", "Invalid IP or network")
    ELSE Return(PyBool(InNetwork(a, n)))

is_ip_in_network(ip, network) ==
    IF ~IsStr(ip) \/ ~IsStr(network) THEN Raise("TypeError", "Invalid input parameters")
    ELSE IpInNetwork(ip_address(StrOf(ip)), ip_interface(StrOf(network)))

(***************************************************************************)
(* validation.get_address_type                                             *)
(***************************************************************************)
AlNum == Letters \cup Digits

\* One label before the last: [a-zA-Z0-9]([a-zA-Z0-9-_]{0,61}[A-Za-z0-9])?
DomainLabelOk(l) ==
    /\ Len(l) \in 1..63
    /\ Char(l, 1) \in AlNum
    /\ Char(l, Len(l)) \in AlNum
    /\ AllIn(l, AlNum \cup {"-", "_"})

\* The last label: [A-Za-z0-9][A-Za-z0-9-_]{0,61}[A-Za-z]
TldOk(l) ==
    /\ Len(l) \in 2..63
    /\ Char(l, 1) \in AlNum
    /\ Char(l, Len(l)) \in Letters
    /\ AllIn(l, AlNum \cup {"-", "_"})

\* The labels of a domain: at least two, the last a top-level domain.
DomainLabelsOk(labels) ==
    /\ Len(labels) >= 2
    /\ \A i \in 1..(Len(labels) - 1) : DomainLabelOk(labels[i])
    /\ TldOk(labels[Len(labels)])

\* validators.domain(address): dot-separated labels (the library's pattern,
\* on ASCII input).
validators_domain(s) == DomainLabelsOk(SplitOn(s, "."))

\* A dict with one entry.
PyDict(key, val) == [t |-> "dict", v |-> << << key, val >> >>]

\* A classification that leaves out the IPv6 parse of lines 81-86.
AddressTypeNoIpv6(isv4, isv6, isdomain) ==
    IF isv4 THEN "ipv4"
    ELSE IF isdomain THEN "domain"
    ELSE "invalid"

\* Lines 74-92: the IPv4 parse is tried first, then the IPv6 parse, then
\* the domain check; the first that succeeds names the key.
AddressType(isv4, isv6, isdomain) ==
    IF isv4 THEN "ipv4"
    ELSE IF isv6 THEN "ipv6"
    ELSE IF isdomain THEN "domain"
    ELSE "invalid"

get_address_type(address) ==
    Return(PyDict(AddressType(IPv4Address(StrOf(address)).ok,
                              IPv6Address(StrOf(address)).ok,
                              validators_domain(StrOf(address))),
                  address))

(***************************************************************************)
(* validation.validate_dkim_record                                         *)
(***************************************************************************)
B64Alphabet == AlNum \cup {"+", "/"}

\* \w of the re module, on ASCII input.
WordChars == AlNum \cup {"_"}

\* The position after the longest run of characters of set starting at i.
RECURSIVE RunEnd(_, _, _)
RunEnd(s, i, set) ==
    IF i <= Len(s) /\ Char(s, i) \in set THEN RunEnd(s, i + 1, set) ELSE i

LitAt(s, i, lit) == Slice(s, i, i + Len(lit) - 1) = lit

\* binascii.a2b_base64 (not strict), as base64.b64decode calls it: characters
\* outside the alphabet are skipped, a pad ends the data once the quad is
\* complete, and data that stops inside a quad is an error.  Yields the
\* number of bytes decoded, or -1 for binascii.Error.
RECURSIVE B64Scan(_, _, _, _, _)
B64Scan(s, i, quad, pads, nbytes) ==
    IF i > Len(s) THEN (IF quad # 0 THEN -1 ELSE nbytes)
    ELSE IF Char(s, i) = "="
         THEN IF quad >= 2 /\ quad + pads + 1 >= 4 THEN nbytes
              ELSE B64Scan(s, i + 1, quad, IF quad >= 2 THEN pads + 1 ELSE pads, nbytes)
    ELSE IF Char(s, i) \notin B64Alphabet THEN B64Scan(s, i + 1, quad, pads, nbytes)
    ELSE B64Scan(s, i + 1, (quad + 1) % 4, 0, IF quad = 0 THEN nbytes ELSE nbytes + 1)

b64decode(s) == B64Scan(s, 1, 0, 0, 0)

\* An optional group of dkim_regex: e is the position after the group when
\* it matched after the whitespace at i, and 0 when it did not; then the
\* group is left out and matching goes on at i.
OptionalGroup(i, e) == IF e = 0 THEN i ELSE e

\* h=sha(1|256); at w
DkimHashAt(s, w) ==
    IF LitAt(s, w, "h=sha1;") THEN w + Len("h=sha1;")
    ELSE IF LitAt(s, w, "h=sha256;") THEN w + Len("h=sha256;")
    ELSE 0

\* k=rsa; at w
DkimKeyTypeAt(s, w) == IF LitAt(s, w, "k=rsa;") THEN w + Len("k=rsa;") ELSE 0

\* t=[\w/]+; at w, the run of [\w/] after "t=" ending at t
DkimFlagsRun(s, w, t) ==
    IF LitAt(s, w, "t=") /\ t > w + 2 /\ LitAt(s, t, ";") THEN t + 1 ELSE 0

DkimFlagsAt(s, w) == DkimFlagsRun(s, w, RunEnd(s, w + 2, WordChars \cup {"/"}))

\* p=[A-Za-z0-9+/]+={0,2} at w and then the end of the string: the
\* payload's characters end at d and its pads at p.
DkimPayloadRun(s, w, d, p) ==
    LitAt(s, w, "p=") /\ d > w + 2 /\ p - d <= 2 /\ p = Len(s) + 1

DkimPayloadPads(s, w, d) == DkimPayloadRun(s, w, d, RunEnd(s, d, {"="}))

DkimPayloadAt(s, w) == DkimPayloadPads(s, w, RunEnd(s, w + 2, B64Alphabet))

\* (\s*h=sha(1|256);)?  (\s*k=rsa;)?  (\s*t=[\w/]+;)?  from position i
DkimHash(s, i) == OptionalGroup(i, DkimHashAt(s, RunEnd(s, i, Whitespace)))

DkimKeyType(s, i) == OptionalGroup(i, DkimKeyTypeAt(s, RunEnd(s, i, Whitespace)))

DkimFlags(s, i) == OptionalGroup(i, DkimFlagsAt(s, RunEnd(s, i, Whitespace)))

\* Group 5 from position i to the end, "" when it does not match there.
DkimPayload(s, i) ==
    IF DkimPayloadAt(s, RunEnd(s, i, Whitespace)) THEN Slice(s, i, Len(s)) ELSE ""

\* dkim_regex.fullmatch: "v=DKIM1;", then the optional groups h, k and t in
\* that order, each after optional whitespace, then group 5, the p= payload,
\* to the end of the record.  Yields group 5, or "" when there is no match
\* (group 5 of a match is never empty).
DkimGroup5(s) ==
    IF LitAt(s, 1, "v=DKIM1;")
    THEN DkimPayload(s, DkimFlags(s, DkimKeyType(s, DkimHash(s, Len("v=DKIM1;") + 1))))
    ELSE ""

\* Line 61: b64decode raises binascii.Error, else the bytes are tested for
\* emptiness.
DkimDecoded(decoded) ==
    IF decoded < 0 THEN Raise("binascii.Error", "Incorrect padding")
    ELSE Return(PyBool(decoded > 0))

\* Lines 55-61: no match returns False; else group 5 without its first two
\* characters is decoded.
DkimMatched(group5) ==
    IF group5 = "" THEN Return(PyBool(FALSE))
    ELSE DkimDecoded(b64decode(Slice(group5, 3, Len(group5))))

validate_dkim_record(dkim_record) ==
    DkimMatched(DkimGroup5(
        Strip(Remove(Remove(StrOf(dkim_record), "\""), " "), Whitespace)))

(***************************************************************************)
(* validation.validate_user_email, get_dmarc_record_match and              *)
(* validate_dmarc_record                                                   *)
(***************************************************************************)
\* The characters of an unquoted local part besides the dot (the quote
\* characters among them are left out: no input of the model holds one).
AText ==
    AlNum \cup {"!", "#", "$", "%", "&", "+", "-", "/", "=", "?",
                "^", "_", "{", "|", "}", "~"}

EmailLabelOk(l) ==
    /\ l # ""
    /\ AllIn(l, AlNum \cup {"-"})
    /\ Char(l, 1) # "-"
    /\ Char(l, Len(l)) # "-"

\* A dot-atom local part of 1 to 64 characters.
EmailLocalOk(local, atoms) ==
    /\ Len(local) \in 1..64
    /\ \A i \in 1..Len(atoms) : atoms[i] # "" /\ AllIn(atoms[i], AText)

\* A domain of at least two labels whose last is not a number.
EmailDomainOk(labels) ==
    /\ Len(labels) >= 2
    /\ \A i \in 1..Len(labels) : EmailLabelOk(labels[i])
    /\ ~AllIn(labels[Len(labels)], Digits)

EmailPartsOk(parts) ==
    /\ Len(parts) = 2
    /\ EmailLocalOk(parts[1], SplitOn(parts[1], "."))
    /\ EmailDomainOk(SplitOn(parts[2], "."))

\* email_validator.validate_email without the deliverability check, on
\* ASCII input: local@domain.  FALSE is EmailNotValidError.
validate_email(email) == EmailPartsOk(SplitOn(email, "@"))

\* The normalized form of a valid address: the domain in lower case.
EmailNormalized(parts) == parts[1] \o "@" \o Lower(parts[2])

\* validate_user_email(address) as get_dmarc_record_match calls it: with
\* return_normalized and without the deliverability check.
\* EmailNotValidError is a subclass of ValueError.
validate_user_email(email) ==
    IF validate_email(email) THEN Return(PyStr(EmailNormalized(SplitOn(email, "@"))))
    ELSE Raise("EmailNotValidError", "")

\* The position after the longest run of characters outside set from i.
RECURSIVE RunEndExcept(_, _, _)
RunEndExcept(s, i, set) ==
    IF i <= Len(s) /\ Char(s, i) \notin set THEN RunEndExcept(s, i + 1, set) ELSE i

\* re.findall(r"mailto:([^;]+)", s) from position i: the captures, in order.
RECURSIVE MailtoAddresses(_, _)
MailtoAddresses(s, i) ==
    LET e == RunEndExcept(s, i + Len("mailto:"), {";"})
    IN  IF i > Len(s) THEN << >>
        ELSE IF LitAt(s, i, "mailto:") /\ e > i + Len("mailto:")
             THEN << Slice(s, i + Len("mailto:"), e - 1) >> \o MailtoAddresses(s, e)
             ELSE MailtoAddresses(s, i + 1)

\* The alternatives of dmarc_regex that are literals.
DmarcLiterals ==
    {"p=none", "p=quarantine", "p=reject", "sp=none", "sp=quarantine",
     "sp=reject", "aspf=r", "aspf=s", "adkim=r", "adkim=s",
     "fo=0", "fo=1", "fo=d", "fo=s", "rf=afrf", "rf=iodef"}

\* The positions after one tag of dmarc_regex matched at i (s in lower case,
\* as the regex ignores case): every way the alternatives can end.
TagEnds(s, i) ==
    {i + Len(l) : l \in {x \in DmarcLiterals : LitAt(s, i, x)}}
    \cup (IF LitAt(s, i, "pct=")
          THEN {e \in (i + 5)..(i + 7) : e <= RunEnd(s, i + 4, Digits)} ELSE {})
    \cup (IF LitAt(s, i, "ri=") THEN (i + 4)..RunEnd(s, i + 3, Digits) ELSE {})
    \cup (IF LitAt(s, i, "rua=mailto:") \/ LitAt(s, i, "ruf=mailto:")
          THEN (i + 12)..RunEndExcept(s, i + 11, {";"}) ELSE {})

\* ((tag);?\s*)*\s*$ from position i, after the whitespace there.
RECURSIVE DmarcBody(_, _)
DmarcBody(s, i) ==
    LET j == RunEnd(s, i, Whitespace)
    IN  \/ j = Len(s) + 1
        \/ \E e \in TagEnds(s, j) :
              \/ DmarcBody(s, e)
              \/ Char(s, e) = ";" /\ DmarcBody(s, e + 1)

\* dmarc_regex.fullmatch(clean_record) is not None
DmarcFullMatch(clean) ==
    LET s == Lower(clean)
    IN  LitAt(s, 1, "v=dmarc1;") /\ DmarcBody(s, Len("v=dmarc1;") + 1)

\* Lines 263-265: each captured address is validated; the first invalid one
\* raises.  Line 272: otherwise the result is the match (here: whether there
\* is one).
DmarcAddresses(mailto_addresses, clean_record) ==
    IF \E i \in 1..Len(mailto_addresses) :
          validate_user_email(mailto_addresses[i]).k = "raise"
    THEN Raise("EmailNotValidError", "")
    ELSE Return(PyBool(DmarcFullMatch(clean_record)))

DmarcClean(clean_record) ==
    DmarcAddresses(MailtoAddresses(clean_record, 1), clean_record)

get_dmarc_record_match(record) == DmarcClean(Strip(Remove(record, "\""), Whitespace))

\* re.search(r"pct=(\d{1,3})", s) from position i: group 1 of the leftmost
\* match, "" when there is none.
RECURSIVE PctSearch(_, _)
PctSearch(s, i) ==
    LET e == RunEnd(s, i + 4, Digits)
    IN  IF i > Len(s) THEN ""
        ELSE IF LitAt(s, i, "pct=") /\ e > i + 4
             THEN Slice(s, i + 4, (IF e > i + 7 THEN i + 7 ELSE e) - 1)
             ELSE PctSearch(s, i + 1)

\* Lines 294-298: the first pct= of the record, if any, is range-checked.
DmarcPct(pct_match) ==
    IF pct_match # "" /\ DecVal(pct_match) > 100
    THEN Raise("ValueError", "The pct value must be between 0 and 100.")
    ELSE Return(PyBool(TRUE))

\* Lines 290-302 on the result of get_dmarc_record_match.
DmarcMatched(record_match, record) ==
    IF record_match.k = "raise" THEN record_match
    ELSE IF ~Truthy(record_match.v)
         THEN Raise("ValueError", "The record is not a valid DMARC record.")
    ELSE DmarcPct(PctSearch(record, 1))

validate_dmarc_record(record) ==
    IF ~IsStr(record) THEN Raise("AssertionError", "The record must be a string.")
    ELSE DmarcMatched(get_dmarc_record_match(StrOf(record)), StrOf(record))

(***************************************************************************)
(* The DNS data spf_check runs against.  The resolver and getaddrinfo are  *)
(* outside the program: the zones below are the answers they give.         *)
(***************************************************************************)
\* dns.resolver.resolve(name, "TXT"): str(rdata) of each answer, quotes
\* included, or a failure (NXDOMAIN, timeout: an exception).
TxtZone(name) ==
    CASE name = "example.com" ->
            [ok |-> TRUE, answers |-> << "\"v=spf1 ip4:192.0.2.0/24 -all\"" >>]
      [] name = "nomatch.example" ->
            [ok |-> TRUE, answers |-> << "\"v=spf1 ip4:198.51.100.0/24 -all\"",
                                         "\"v=spf1 ip6:2001:db8:ffff::/48\"" >>]
      [] name = "notspf.example" ->
            [ok |-> TRUE, answers |-> << "\"site-verification=abc\"",
                                         "\"v=spf1 ip4:192.0.2.0/24 -all\"" >>]
      [] name = "a.example" ->
            [ok |-> TRUE, answers |-> << "\"v=spf1 include:b.example -all\"" >>]
      [] name = "b.example" ->
            [ok |-> TRUE, answers |-> << "\"v=spf1 include:a.example -all\"" >>]
      [] OTHER -> [ok |-> FALSE, answers |-> << >>]

\* socket.getaddrinfo(domain, None): (family, address) of each entry, or a
\* failure (socket.gaierror).
AddrInfo(domain) ==
    CASE domain = "example.com" ->
            [ok |-> TRUE, infos |-> << << "AF_INET", "192.0.2.1" >>,
                                       << "AF_INET", "192.0.2.1" >>,
                                       << "AF_INET6", "2001:db8::1" >> >>]
      [] OTHER -> [ok |-> FALSE, infos |-> << >>]

\* The addresses of one family, in the order getaddrinfo gave them.
RECURSIVE OfFamily(_, _)
OfFamily(infos, family) ==
    IF infos = << >> THEN << >>
    ELSE (IF infos[1][1] = family THEN << infos[1][2] >> ELSE << >>)
         \o OfFamily(Tail(infos), family)

\* validation.resolve_domain
resolve_domain(domain) ==
    LET r == AddrInfo(domain)
    IN  IF ~r.ok THEN [k |-> "raise", e |-> "gaierror", v4 |-> << >>, v6 |-> << >>]
        ELSE [k |-> "return", e |-> "",
              v4 |-> OfFamily(r.infos, "AF_INET"),
              v6 |-> OfFamily(r.infos, "AF_INET6")]

Range(seq) == {seq[i] : i \in 1..Len(seq)}

\* list_fix(val) of spf_check: list(set(val)), whose order Python leaves
\* open: every order of the distinct elements is a possible result.
list_fix(val) ==
    LET S == Range(val)
    IN  {l \in [1..Cardinality(S) -> S] : Range(l) = S}

(***************************************************************************)
(* validation.spf_check as a machine of Python frames.  A frame holds the  *)
(* arguments of its call and the position the call has reached:            *)
(*   resolve  lines 197-200      parse   lines 203-210                     *)
(*   token    lines 213-244      answers lines 220-222                     *)
(*   done     the call returned or raised (ret)                            *)
(***************************************************************************)
NewFrame(record, ipv4, ipv6, domain) ==
    [pc |-> "resolve", record |-> record, ipv4 |-> ipv4, ipv6 |-> ipv6,
     domain |-> domain, parts |-> << >>, i |-> 0, answers |-> << >>, j |-> 0,
     ret |-> Pending]

Top == stack[Len(stack)]

SetTop(f) == [stack EXCEPT ![Len(stack)] = f]

Running(pc) == stack # << >> /\ Top.pc = pc

Finish(f, ret) == [f EXCEPT !.pc = "done", !.ret = ret]

\* Lines 197-200: without both candidate lists and with a domain, the
\* domain's addresses replace the candidates; a resolution failure raises.
SpfResolve ==
    /\ Running("resolve")
    /\ LET f == Top
           r == resolve_domain(StrOf(f.domain))
       IN  IF (~Truthy(f.ipv4) \/ ~Truthy(f.ipv6)) /\ Truthy(f.domain)
           THEN /\ dnsLog' = Append(dnsLog, << "A", StrOf(f.domain) >>)
                /\ IF r.k = "raise"
                   THEN stack' = SetTop(Finish(f, Raise(r.e, "")))
                   ELSE \E l4 \in list_fix(r.v4), l6 \in list_fix(r.v6) :
                           stack' = SetTop([f EXCEPT !.pc = "parse",
                                                     !.ipv4 = PyList(l4),
                                                     !.ipv6 = PyList(l6)])
           ELSE /\ stack' = SetTop([f EXCEPT !.pc = "parse"])
                /\ UNCHANGED dnsLog
    /\ UNCHANGED << call, outcome, htmlVars >>

\* Lines 203-206: spf_record.strip('"').strip().split()
SpfParts(record) == SplitWs(Strip(Strip(record, {"\""}), Whitespace))

\* Lines 203-210: the record is split and its first part checked.
SpfParse ==
    /\ Running("parse")
    /\ LET f == Top
           parts == SpfParts(f.record)
       IN  stack' = SetTop(
              IF parts = << >> \/ parts[1] # "v=spf1"
              THEN Finish(f, Raise("ValueError", "Invalid SPF record"))
              ELSE [f EXCEPT !.pc = "token", !.parts = parts, !.i = 2])
    /\ UNCHANGED << call, dnsLog, outcome, htmlVars >>

AtToken(prefix) ==
    /\ Running("token")
    /\ Top.i <= Len(Top.parts)
    /\ StartsWith(Top.parts[Top.i], prefix)

\* An include: that never takes the branch of line 216.
IsSelfIncludeNever(domain, included_domain) == FALSE

\* Line 216: the included domain is the domain under test.
IsSelfInclude(domain, included_domain) == domain = PyStr(included_domain)

\* Lines 214-224: include:<domain>.  The domain under test authorizes at
\* once; otherwise the TXT lookup is issued, and its failure is caught by
\* the except clause, which returns False.
SpfInclude ==
    /\ AtToken("include:")
    /\ LET f == Top
           included_domain == SplitOn(f.parts[f.i], ":")[2]
           r == TxtZone(included_domain)
       IN  IF IsSelfInclude(f.domain, included_domain)
           THEN /\ stack' = SetTop(Finish(f, Return(PyBool(TRUE))))
                /\ UNCHANGED dnsLog
           ELSE /\ dnsLog' = Append(dnsLog, << "TXT", included_domain >>)
                /\ stack' = SetTop(
                      IF ~r.ok THEN Finish(f, Return(PyBool(FALSE)))
                      ELSE [f EXCEPT !.pc = "answers", !.answers = r.answers, !.j = 1])
    /\ UNCHANGED << call, outcome, htmlVars >>

\* A recursion whose RecursionError no handler catches.
SpfAnswerUncaught ==
    /\ Running("answers")
    /\ LET f == Top
       IN  IF f.j > Len(f.answers)
           THEN /\ stack' = SetTop([f EXCEPT !.pc = "token", !.i = f.i + 1])
                /\ UNCHANGED outcome
           ELSE IF Len(stack) >= MaxDepth
           THEN /\ stack' = << >>
                /\ outcome' = Raise("RecursionError", "")
           ELSE /\ stack' = Append(stack, NewFrame(f.answers[f.j], f.ipv4, f.ipv6, f.domain))
                /\ UNCHANGED outcome
    /\ UNCHANGED << call, dnsLog, htmlVars >>

\* Lines 220-222: the next TXT answer is evaluated by a recursive call with
\* the same candidates; past the interpreter's frame limit the call raises
\* RecursionError, which the except clause turns into False.  After the last
\* answer the loop over the parts goes on.
SpfAnswer ==
    /\ Running("answers")
    /\ LET f == Top
       IN  IF f.j > Len(f.answers)
           THEN stack' = SetTop([f EXCEPT !.pc = "token", !.i = f.i + 1])
           ELSE IF Len(stack) >= MaxDepth
           THEN stack' = SetTop(Finish(f, Return(PyBool(FALSE))))
           ELSE stack' = Append(stack, NewFrame(f.answers[f.j], f.ipv4, f.ipv6, f.domain))
    /\ UNCHANGED << call, dnsLog, outcome, htmlVars >>

\* The loops of lines 230-232 and 238-240 from candidate k on: the first
\* candidate inside the network is a match, an empty candidate is skipped,
\* and an exception of is_ip_in_network ends the loop.
RECURSIVE Candidates(_, _, _)
Candidates(list, k, network) ==
    LET r == is_ip_in_network(PyStr(list[k]), PyStr(network))
    IN  IF k > Len(list) THEN Return(PyBool(FALSE))
        ELSE IF list[k] = "" THEN Candidates(list, k + 1, network)
        ELSE IF r.k = "raise" \/ Truthy(r.v) THEN r
        ELSE Candidates(list, k + 1, network)

\* Lines 229 and 237: a str becomes a one-element list; a list stays; None
\* stays None, and iterating it raises TypeError.
Membership(cands, network) ==
    CASE cands.t = "str"  -> Candidates(<< StrOf(cands) >>, 1, network)
      [] cands.t = "list" -> Candidates(cands.v, 1, network)
      [] OTHER -> Raise("TypeError", "'NoneType' object is not iterable")

\* A membership test whose match does not end the call.
AfterMembershipGoesOn(f, r) ==
    IF r.k = "raise" THEN Finish(f, r)
    ELSE [f EXCEPT !.i = f.i + 1]

\* What a membership test does to the frame: a match returns True, an
\* exception leaves the call, no match goes on to the next part.
AfterMembership(f, r) ==
    IF r.k = "raise" THEN Finish(f, r)
    ELSE IF Truthy(r.v) THEN Finish(f, Return(PyBool(TRUE)))
    ELSE [f EXCEPT !.i = f.i + 1]

\* Line 227: the network of an ip4: part.
Ip4Network(part) == SplitOn(part, ":")[2]

\* The network of an ip6: part as functions.py line 106 takes it: the field
\* after the first colon only.
Ip6NetworkFirstField(part) == SplitOn(part, ":")[2]

\* Line 235: the network of an ip6: part, its colons kept.
Ip6Network(part) == Join(Tail(SplitOn(part, ":")), ":")

\* Lines 226-232: ip4:<network>
SpfIp4 ==
    /\ AtToken("ip4:")
    /\ stack' = SetTop(AfterMembership(Top,
                   Membership(Top.ipv4, Ip4Network(Top.parts[Top.i]))))
    /\ UNCHANGED << call, dnsLog, outcome, htmlVars >>

\* Lines 234-240: ip6:<network>
SpfIp6 ==
    /\ AtToken("ip6:")
    /\ stack' = SetTop(AfterMembership(Top,
                   Membership(Top.ipv6, Ip6Network(Top.parts[Top.i]))))
    /\ UNCHANGED << call, dnsLog, outcome, htmlVars >>

\* Lines 213-240: a part of no handled kind (-all, a, mx, ...) is passed over.
SpfSkip ==
    /\ Running("token")
    /\ Top.i <= Len(Top.parts)
    /\ \A prefix \in {"include:", "ip4:", "ip6:"} : ~StartsWith(Top.parts[Top.i], prefix)
    /\ stack' = SetTop([Top EXCEPT !.i = Top.i + 1])
    /\ UNCHANGED << call, dnsLog, outcome, htmlVars >>

\* Lines 242-244 and the end of the function: after the last part, False
\* when "-all" is among the parts; otherwise the function ends without a
\* return statement, which returns None.
SpfEnd ==
    /\ Running("token")
    /\ Top.i > Len(Top.parts)
    /\ stack' = SetTop(Finish(Top,
                   IF "-all" \in Range(Top.parts) THEN Return(PyBool(FALSE))
                   ELSE Return(PyNone)))
    /\ UNCHANGED << call, dnsLog, outcome, htmlVars >>

\* A finished call leaves its frame.  The top-level call's result is the
\* outcome; a recursive call hands its result to line 221: a true value
\* returns True, any other value goes on to the next answer, and an
\* exception is caught at line 223 and returns False.
SpfUnwind ==
    /\ Running("done")
    /\ LET r == Top.ret
           rest == SubSeq(stack, 1, Len(stack) - 1)
           caller == rest[Len(rest)]
       IN  IF rest = << >>
           THEN /\ outcome' = r
                /\ stack' = << >>
           ELSE /\ UNCHANGED outcome
                /\ stack' = [rest EXCEPT ![Len(rest)] =
                      IF r.k = "raise" THEN Finish(caller, Return(PyBool(FALSE)))
                      ELSE IF Truthy(r.v) THEN Finish(caller, Return(PyBool(TRUE)))
                      ELSE [caller EXCEPT !.j = caller.j + 1]]
    /\ UNCHANGED << call, dnsLog, htmlVars >>

(***************************************************************************)
(* The calls the model makes.                                              *)
(***************************************************************************)
\* The mechanism tokens a generated SPF record is made of.
SpfTokens ==
    {"ip4:192.0.2.0/24", "ip6:2001:0db8::/32",
     "include:example.com", "include:nx.invalid", "include:notspf.example",
     "include:nomatch.example", "include:a.example"}

RECURSIVE Concat(_)
Concat(seq) == IF seq = << >> THEN "" ELSE seq[1] \o Concat(Tail(seq))

\* "v=spf1", up to MaxTokens tokens, and "-all" or nothing at the end.
SpfRecords ==
    {"v=spf1" \o Concat([i \in 1..Len(ts) |-> " " \o ts[i]]) \o tail :
        ts \in UNION {[1..n -> SpfTokens] : n \in 0..MaxTokens},
        tail \in {"", " -all"}}
    \cup {"", "invalid_spf_record", "v=spf10 -all",
          "\"v=spf1 ip6:2001:0db8::/32 -all\""}

SpfIpv4s ==
    {PyNone, PyStr("192.0.2.1"), PyStr("203.0.113.1"),
     PyList(<< "203.0.113.1", "192.0.2.1" >>)}

SpfIpv6s ==
    {PyNone, PyStr("2001:0db8::1234"), PyStr("2001:0db9::1234"),
     PyList(<< "2001:0db9::1234", "2001:0db8::1234" >>)}

SpfDomains ==
    {PyNone, PyStr("example.com"), PyStr("nx.invalid")}

SpfCall(record, ipv4, ipv6, domain) ==
    [fn |-> "spf_check", args |-> << PyStr(record), ipv4, ipv6, domain >>]

(***************************************************************************)
(* SpecSpf: one top-level call of spf_check, run frame by frame.           *)
(***************************************************************************)
InitSpf ==
    \E record \in SpfRecords, ipv4 \in SpfIpv4s, ipv6 \in SpfIpv6s,
       domain \in SpfDomains :
        /\ call = SpfCall(record, ipv4, ipv6, domain)
        /\ stack = << NewFrame(record, ipv4, ipv6, domain) >>
        /\ dnsLog = << >>
        /\ outcome = Pending
        /\ soup = << >>
        /\ message = << >>
        /\ netLog = << >>
        /\ previous = << >>

NextSpf ==
    \/ SpfResolve
    \/ SpfParse
    \/ SpfInclude
    \/ SpfAnswer
    \/ SpfIp4
    \/ SpfIp6
    \/ SpfSkip
    \/ SpfEnd
    \/ SpfUnwind

SpecSpf == InitSpf /\ [][NextSpf]_vars

(***************************************************************************)
(* SpecSpfOrder: one top-level call of spf_check on a record whose parts   *)
(* are taken in any order from mechanisms that match, mechanisms that do   *)
(* not, a malformed network, an include cycle and -all.                    *)
(***************************************************************************)
OrderTokens ==
    {"ip4:192.0.2.0/24", "ip6:2001:0db8::/32", "ip4:bogus", "-all",
     "include:example.com", "include:nx.invalid", "include:a.example"}

OrderRecords ==
    {"v=spf1" \o Concat([i \in 1..Len(ts) |-> " " \o ts[i]]) :
        ts \in UNION {[1..n -> OrderTokens] : n \in 0..MaxTokens}}

InitSpfOrder ==
    \E record \in OrderRecords,
       ipv4 \in {PyStr("192.0.2.1"), PyList(<< "203.0.113.1" >>)},
       ipv6 \in {PyStr("2001:0db8::1234"), PyStr("2001:0db9::1234")},
       domain \in {PyNone, PyStr("example.com")} :
        /\ call = SpfCall(record, ipv4, ipv6, domain)
        /\ stack = << NewFrame(record, ipv4, ipv6, domain) >>
        /\ dnsLog = << >>
        /\ outcome = Pending
        /\ soup = << >>
        /\ message = << >>
        /\ netLog = << >>
        /\ previous = << >>

SpecSpfOrder == InitSpfOrder /\ [][NextSpf]_vars

(***************************************************************************)
(* SpecVal: one call of a pure validator, applied to its arguments.        *)
(***************************************************************************)
\* Values that are not strings.
NotStrings == {PyNone, PyInt(1)}

IpArguments ==
    {PyStr(s) : s \in {"192.168.1.1", "192.168.2.1", "192.0.2.01", "",
                       "not-a-valid-ip", "2001:0db8:85a3:0000:0000:8a2e:0370:7334",
                       "2001:0db9::1234", "::ffff:192.168.1.1"}}
    \cup NotStrings

NetworkArguments ==
    {PyStr(s) : s \in {"192.168.1.0/24", "192.168.1.0/255.255.255.0",
                       "192.168.1.0/33", "", "not-a-valid-network",
                       "2001:0db8::/32", "2001:0db8:abcd:ef02::/64"}}
    \cup NotStrings

AddressArguments ==
    {PyStr(s) : s \in {"192.0.2.0", "2001:db8::", "::1", "example.com",
                       "mail.example.com", "invalid", "", "256.0.2.0",
                       "192.0.2.0/24", "exa mple.com", "-example.com",
                       "2001:db8::g"}}

\* n copies of the string c.
RECURSIVE Repeat(_, _)
Repeat(c, n) == IF n <= 0 THEN "" ELSE c \o Repeat(c, n - 1)

\* "v=DKIM1;", the optional tags, and a payload of up to MaxPayload
\* characters and up to three pads; then records of other shapes.
DkimRecords ==
    {"v=DKIM1;" \o h \o k \o tg \o " p=" \o Repeat("A", n) \o Repeat("=", m) :
        h \in {"", " h=sha256;"}, k \in {"", " k=rsa;"}, tg \in {"", " t=s;"},
        n \in 0..MaxPayload, m \in 0..3}
    \cup {"", "invalid_dkim_record", "v=DKIM1; k=rsa;", "v=DKIM1; p=abc",
          "\"v=DKIM1; k=rsa; p=QUJD\"", "v=DKIM1; k=rsa; h=sha256; p=QUJD",
          "v=DKIM1; p=QUJD; k=rsa;", "v=dkim1; p=QUJD"}

\* The tags a generated DMARC record is made of.
DmarcTags ==
    {"p=none", "pct=50", "pct=200", "PCT=200", "pct=1000",
     "rua=mailto:abc@example.com", "rua=mailto:abc", "rua=MAILTO:abc",
     "ruf=mailto:a@example.com,mailto:b@example.com", "bogus=1"}

\* "v=DMARC1;" and up to MaxTags tags, each closed by ";"; then records of
\* other shapes.
DmarcRecords ==
    {"v=DMARC1;" \o Concat([i \in 1..Len(ts) |-> " " \o ts[i] \o ";"]) :
        ts \in UNION {[1..n -> DmarcTags] : n \in 0..MaxTags}}
    \cup {"", "This is invalid dmarc record",
          "v=SPF; p=none; rua=mailto:abc@example.com; pct=100; fo=1;",
          "v=DMARC1; p=none; rua=mailto:abc@example.com; pct=100; fo=1",
          "v=DMARC1;p=nonep=reject", "v=DMARC1; p=none sp=reject",
          "V=dmarc1; P=NONE; ri=86400;", "v=DMARC1", "v=DMARC2; p=none;",
          " \"v=DMARC1; p=none;\" ", "v=DMARC1; p=none;; sp=none"}

ValCall(fn, args) == [fn |-> fn, args |-> args]

ValCalls ==
    {ValCall("is_ip_in_network", << ip, network >>) :
        ip \in IpArguments, network \in NetworkArguments}
    \cup {ValCall("get_address_type", << a >>) : a \in AddressArguments}
    \cup {ValCall("validate_dkim_record", << PyStr(r) >>) : r \in DkimRecords}
    \cup {ValCall("validate_dmarc_record", << r >>) :
            r \in {PyStr(s) : s \in DmarcRecords} \cup NotStrings}

InitVal ==
    /\ call \in ValCalls
    /\ stack = << >>
    /\ dnsLog = << >>
    /\ outcome = Pending
    /\ soup = << >>
    /\ message = << >>
    /\ netLog = << >>
    /\ previous = << >>

Calling(fn) == call.fn = fn /\ outcome = Pending

ApplyIsIpInNetwork ==
    /\ Calling("is_ip_in_network")
    /\ outcome' = is_ip_in_network(call.args[1], call.args[2])
    /\ UNCHANGED << call, stack, dnsLog, htmlVars >>

ApplyGetAddressType ==
    /\ Calling("get_address_type")
    /\ outcome' = get_address_type(call.args[1])
    /\ UNCHANGED << call, stack, dnsLog, htmlVars >>

ApplyValidateDkimRecord ==
    /\ Calling("validate_dkim_record")
    /\ outcome' = validate_dkim_record(call.args[1])
    /\ UNCHANGED << call, stack, dnsLog, htmlVars >>

ApplyValidateDmarcRecord ==
    /\ Calling("validate_dmarc_record")
    /\ outcome' = validate_dmarc_record(call.args[1])
    /\ UNCHANGED << call, stack, dnsLog, htmlVars >>

NextVal ==
    \/ ApplyIsIpInNetwork
    \/ ApplyGetAddressType
    \/ ApplyValidateDkimRecord
    \/ ApplyValidateDmarcRecord

SpecVal == InitVal /\ [][NextVal]_vars

(***************************************************************************)
(* Properties of spf_check, stated on the ended top-level call of SpecSpf. *)
(***************************************************************************)
SpfDone == call.fn = "spf_check" /\ outcome.k # "pending"

SpfReturned == SpfDone /\ outcome.k = "return"

RecordArg == StrOf(call.args[1])

Ipv4Arg == call.args[2]

Ipv6Arg == call.args[3]

DomainArg == call.args[4]

\* The whitespace-separated tokens of the record, surrounding quotes aside.
Tokens == SpfParts(RecordArg)

ValidSpfRecord == Tokens # << >> /\ Tokens[1] = "v=spf1"

HasAll == "-all" \in Range(Tokens)

\* The candidates an argument supplies: none, one string, or a list.
CandidateSet(arg) ==
    CASE arg.t = "str"  -> {StrOf(arg)}
      [] arg.t = "list" -> Range(arg.v)
      [] OTHER -> {}

\* The address c lies inside the network written as net.
Inside(c, net) ==
    /\ ip_address(c).ok
    /\ ip_interface(net).ok
    /\ InNetwork(ip_address(c), ip_interface(net))

\* Token i is an ip4:/ip6: mechanism whose network, everything after the
\* prefix, holds a supplied candidate of its family.
TokenMatches(i) ==
    \/ /\ StartsWith(Tokens[i], "ip4:")
       /\ \E c \in CandidateSet(Ipv4Arg) : Inside(c, Slice(Tokens[i], 5, Len(Tokens[i])))
    \/ /\ StartsWith(Tokens[i], "ip6:")
       /\ \E c \in CandidateSet(Ipv6Arg) : Inside(c, Slice(Tokens[i], 5, Len(Tokens[i])))

IsInclude(i) == StartsWith(Tokens[i], "include:")

\* A call without a domain on a valid record made of ip4:/ip6: mechanisms
\* (and -all), with candidates supplied for every family the record names.
IpOnlyCall ==
    /\ SpfDone
    /\ DomainArg = PyNone
    /\ ValidSpfRecord
    /\ \A i \in 2..Len(Tokens) :
          \/ Tokens[i] = "-all"
          \/ StartsWith(Tokens[i], "ip4:") /\ Ipv4Arg # PyNone
          \/ StartsWith(Tokens[i], "ip6:") /\ Ipv6Arg # PyNone

\* C1: a call of spf_check that does not raise returns True or False; on a
\* record without include: mechanisms, called without a domain, the result
\* is True when a mechanism holds a candidate, and otherwise False when the
\* tokens contain -all and True when they do not.
C1_DefiniteResult ==
    /\ SpfReturned => outcome.v \in {PyBool(TRUE), PyBool(FALSE)}
    /\ (SpfReturned /\ DomainArg = PyNone /\ \A i \in 2..Len(Tokens) : ~IsInclude(i))
          => outcome.v = PyBool((\E i \in 2..Len(Tokens) : TokenMatches(i)) \/ ~HasAll)

\* C2: in a call without a domain, a mechanism that holds a candidate and
\* has only include: tokens before it yields True, whether those includes
\* authorized, found nothing, failed to resolve or raised.
C2_LaterTokenAfterFailedInclude ==
    (/\ SpfDone
     /\ DomainArg = PyNone
     /\ ValidSpfRecord
     /\ \E i \in 2..Len(Tokens) :
           TokenMatches(i) /\ \A j \in 2..(i - 1) : IsInclude(j))
    => outcome = Return(PyBool(TRUE))

\* C3: a call on a record of ip4:/ip6: mechanisms returns, and returns True
\* exactly when some mechanism's network, everything after the prefix, holds
\* a supplied candidate of its family, given as one string or as a list.
C3_IpMechanismAuthorizes ==
    IpOnlyCall =>
        /\ outcome.k = "return"
        /\ outcome.v = PyBool(TRUE) <=> \E i \in 2..Len(Tokens) : TokenMatches(i)

\* C3 happens: the quoted ip6 record authorizes the second candidate of a list.
C3_Reached ==
    /\ IpOnlyCall
    /\ RecordArg = "v=spf1 ip6:2001:0db8::/32 -all"
    /\ Ipv6Arg = PyList(<< "2001:0db9::1234", "2001:0db8::1234" >>)
    /\ outcome = Return(PyBool(TRUE))

\* C4: a record that is empty or does not start with the token v=spf1 ends
\* the call with the invalid-record ValueError, whatever the other
\* arguments are, and no lookup has been issued.
C4_InvalidRecordFirst ==
    (SpfDone /\ ~ValidSpfRecord)
    => outcome = Raise("ValueError", "Invalid SPF record") /\ dnsLog = << >>

\* A call whose first mechanism includes the domain under test.
SelfIncludeCall ==
    /\ SpfDone
    /\ ValidSpfRecord
    /\ Len(Tokens) >= 2
    /\ IsStr(DomainArg)
    /\ Tokens[2] = "include:" \o StrOf(DomainArg)

Called(fn) == call.fn = fn /\ outcome.k # "pending"

Raised(e) == outcome.k = "raise" /\ outcome.e = e

BothStrings == IsStr(call.args[1]) /\ IsStr(call.args[2])

\* Both arguments are strings that parse, as an address and as a network.
BothParse ==
    /\ BothStrings
    /\ ip_address(StrOf(call.args[1])).ok
    /\ ip_interface(StrOf(call.args[2])).ok

FirstClass(s) ==
    IF IPv4Address(s).ok THEN "ipv4"
    ELSE IF IPv6Address(s).ok THEN "ipv6"
    ELSE IF validators_domain(s) THEN "domain"
    ELSE "invalid"

\* C7: get_address_type returns a mapping with exactly one key, the first
\* class the string matches in the order ipv4, ipv6, domain, or invalid
\* when it matches none, and the value is the input string unchanged.
C7_FirstMatchingClass ==
    Called("get_address_type") =>
        /\ outcome.k = "return"
        /\ outcome.v.t = "dict"
        /\ Len(outcome.v.v) = 1
        /\ outcome.v.v[1] = << FirstClass(StrOf(call.args[1])), call.args[1] >>
        /\ call.args[1] = PyStr("192.0.2.0") => outcome.v.v[1][1] = "ipv4"
        /\ call.args[1] = PyStr("2001:db8::") => outcome.v.v[1][1] = "ipv6"
        /\ call.args[1] = PyStr("example.com") => outcome.v.v[1][1] = "domain"
        /\ call.args[1] = PyStr("invalid") => outcome.v.v[1][1] = "invalid"

\* C7 happens: an IPv6 literal was classified.
C7_Reached ==
    /\ Called("get_address_type")
    /\ call.args[1] = PyStr("2001:db8::")
    /\ outcome = Return(PyDict("ipv6", PyStr("2001:db8::")))

\* C8: validate_dkim_record never raises: every call returns True or False.
C8_NeverRaises ==
    Called("validate_dkim_record") =>
        outcome.k = "return" /\ outcome.v \in {PyBool(TRUE), PyBool(FALSE)}

\* The tags of a DMARC record: its pieces between ";", in lower case and
\* without the whitespace around them.
DmarcPieces(pieces) ==
    [i \in 1..Len(pieces) |-> Lower(Strip(pieces[i], Whitespace))]

DmarcTagsOf(record) == DmarcPieces(SplitOn(record, ";"))

IsPctTag(tg) ==
    StartsWith(tg, "pct=") /\ Len(tg) > 4 /\ AllIn(Slice(tg, 5, Len(tg)), Digits)

\* The pct values a record carries.
PctValues(record) ==
    {DecVal(Slice(tg, 5, Len(tg))) : tg \in {x \in Range(DmarcTagsOf(record)) : IsPctTag(x)}}

\* The addresses of the mailto: URIs in the comma-separated list of a rua=
\* or ruf= tag.
UrisOf(tg) == SplitOn(Slice(tg, 5, Len(tg)), ",")

AddressesOf(tg) ==
    IF StartsWith(tg, "rua=") \/ StartsWith(tg, "ruf=")
    THEN {Slice(u, 8, Len(u)) : u \in {x \in Range(UrisOf(tg)) : StartsWith(x, "mailto:")}}
    ELSE {}

\* The report addresses a record carries.
ReportAddresses(record) == UNION {AddressesOf(tg) : tg \in Range(DmarcTagsOf(record))}

\* A record that matches the grammar, its pct tags aside: "v=DMARC1" and
\* then tags that are literals of the grammar, pct tags, or report tags
\* with valid addresses.
GrammarAsidePct(record) ==
    /\ DmarcTagsOf(record)[1] = "v=dmarc1"
    /\ \A tg \in Range(Tail(DmarcTagsOf(record))) :
          \/ tg = ""
          \/ tg \in DmarcLiterals
          \/ IsPctTag(tg)
          \/ AddressesOf(tg) # {} /\ \A a \in AddressesOf(tg) : validate_email(a)

\* C9: a record that carries a pct value above 100 and otherwise matches
\* the grammar is rejected with the range reason.
C9_OutOfRangePctRejected ==
    (/\ Called("validate_dmarc_record")
     /\ IsStr(call.args[1])
     /\ GrammarAsidePct(StrOf(call.args[1]))
     /\ \E v \in PctValues(StrOf(call.args[1])) : v > 100)
    => outcome = Raise("ValueError", "The pct value must be between 0 and 100.")

\* C10: a record that carries an invalid report address is rejected with
\* the invalid-address error, and a record whose report addresses are all
\* valid is not rejected with that error.
C10_ReportAddressesValidated ==
    (Called("validate_dmarc_record") /\ IsStr(call.args[1])) =>
        Raised("EmailNotValidError")
           <=> \E a \in ReportAddresses(StrOf(call.args[1])) : ~validate_email(a)

\* A tag the claimed grammar recognizes, in lower case: a literal of the
\* grammar, pct with a value of at most three digits up to 100, ri with a
\* number, or rua/ruf with a list of mailto: URIs of valid addresses.
RecognizedTag(tg) ==
    \/ tg \in DmarcLiterals
    \/ IsPctTag(tg) /\ Len(tg) <= 7 /\ DecVal(Slice(tg, 5, Len(tg))) <= 100
    \/ StartsWith(tg, "ri=") /\ Len(tg) > 3 /\ AllIn(Slice(tg, 4, Len(tg)), Digits)
    \/ /\ StartsWith(tg, "rua=") \/ StartsWith(tg, "ruf=")
       /\ \A u \in Range(UrisOf(tg)) :
             StartsWith(u, "mailto:") /\ validate_email(Slice(u, 8, Len(u)))

\* "v=DMARC1;" and then recognized tags separated by ";", the last one
\* closed by ";" or not.
RecognizedTags(tags) ==
    /\ Len(tags) >= 2
    /\ tags[1] = "v=dmarc1"
    /\ \A i \in 2..Len(tags) : RecognizedTag(tags[i]) \/ (i = Len(tags) /\ tags[i] = "")

ClaimedDmarcGrammar(record) ==
    RecognizedTags(DmarcTagsOf(Strip(Remove(record, "\""), Whitespace)))

\* C11: validate_dmarc_record returns True exactly for the records that,
\* quotes and surrounding whitespace aside, are "v=DMARC1;" followed by
\* semicolon-separated recognized tags in any case, and rejects every other
\* record with ValueError (EmailNotValidError is one).
C11_AcceptsExactlyTheGrammar ==
    (Called("validate_dmarc_record") /\ IsStr(call.args[1])) =>
        IF ClaimedDmarcGrammar(StrOf(call.args[1]))
        THEN outcome = Return(PyBool(TRUE))
        ELSE Raised("ValueError") \/ Raised("EmailNotValidError")

(***************************************************************************)
(* html_parse: image embedding.  A document is the parsed tree flattened  *)
(* in document order: text nodes and img elements.  An element's          *)
(* attributes are a function from the names present to their values.      *)
(* bytes are sequences of numbers below 256.                               *)
(***************************************************************************)
\* img elements in a generated document.
MaxImgs == 2

Text(t) == [tag |-> "text", attrs |-> << >>, text |-> t]

Img(attrs) == [tag |-> "img", attrs |-> attrs, text |-> ""]

\* element.attrs[k] = v
SetAttr(attrs, k, v) == (k :> v) @@ attrs

\* element.get(k, default)
GetAttr(attrs, k, default) == IF k \in DOMAIN attrs THEN attrs[k] ELSE default

\* soup.find_all("img"): the positions of the img elements, in order.
RECURSIVE FindAllImg(_, _)
FindAllImg(nodes, i) ==
    IF i > Len(nodes) THEN << >>
    ELSE (IF nodes[i].tag = "img" THEN << i >> ELSE << >>) \o FindAllImg(nodes, i + 1)

\* str(n) for n >= 0
RECURSIVE IntStr(_)
IntStr(n) ==
    IF n < 10 THEN Char("0123456789", n + 1)
    ELSE IntStr(n \div 10) \o Char("0123456789", (n % 10) + 1)

\* s.find(sub, from i), 0 when sub does not occur.
RECURSIVE Find(_, _, _)
Find(s, sub, i) ==
    IF i + Len(sub) - 1 > Len(s) THEN 0
    ELSE IF SubSeq(s, i, i + Len(sub) - 1) = sub THEN i
    ELSE Find(s, sub, i + 1)

\* s.rfind(c) for one character, 0 when c does not occur.
RECURSIVE RFind(_, _, _)
RFind(s, c, i) ==
    IF i < 1 THEN 0 ELSE IF Char(s, i) = c THEN i ELSE RFind(s, c, i - 1)

ReplaceAt(s, old, new, at) ==
    IF at = 0 THEN s
    ELSE Slice(s, 1, at - 1) \o new \o Slice(s, at + Len(old), Len(s))

\* s.replace(old, new) for a string with at most one occurrence of old
Replace(s, old, new) == ReplaceAt(s, old, new, Find(s, old, 1))

UpperAt(c, i) == IF i = 0 THEN c ELSE Char("ABCDEFGHIJKLMNOPQRSTUVWXYZ", i)

\* str.upper() on one character.
UpperChar(c) == UpperAt(c, Find("abcdefghijklmnopqrstuvwxyz", c, 1))

RECURSIVE Upper(_)
Upper(s) == IF s = "" THEN "" ELSE UpperChar(Char(s, 1)) \o Upper(Slice(s, 2, Len(s)))

\* The first position from i to limit - 1 holding another character than
\* ".", 0 if there is none.
RECURSIVE FirstNonDot(_, _, _)
FirstNonDot(p, i, limit) ==
    IF i >= limit THEN 0
    ELSE IF Char(p, i) # "." THEN i
    ELSE FirstNonDot(p, i + 1, limit)

SplitExtAt(p, sep, dot) ==
    IF dot > sep /\ FirstNonDot(p, sep + 1, dot) # 0 THEN Slice(p, dot, Len(p)) ELSE ""

\* os.path.splitext(p)[1]: from the last dot of the last component, the
\* component's leading dots aside.
SplitExt(p) == SplitExtAt(p, RFind(p, "/", Len(p)), RFind(p, ".", Len(p)))

CutAt(s, at) == IF at = 0 THEN s ELSE Slice(s, 1, at - 1)

UrlPathAfter(s, slash) == IF slash = 0 THEN "" ELSE Slice(s, slash, Len(s))

UrlPathOf(s, scheme) ==
    IF scheme = 0 THEN s
    ELSE UrlPathAfter(s, Find(s, "/", scheme + 3))

UrlNoFragment(s) == CutAt(s, Find(s, "#", 1))

UrlNoQuery(s) == CutAt(s, Find(s, "?", 1))

\* urlparse(src).path: what follows scheme://netloc, up to the query or the
\* fragment.
UrlPath(src) == UrlPathOf(UrlNoQuery(UrlNoFragment(src)), Find(src, "://", 1))

AfterSchemeAt(url, colon, slash) ==
    IF colon > 1 /\ (slash = 0 \/ slash > colon)
    THEN Slice(url, colon + 1, Len(url)) ELSE url

\* The mimetypes entries the model's locators reach.
TypesMap(ext) ==
    CASE ext \in {".jpg", ".jpeg"} -> PyStr("image/jpeg")
      [] ext = ".png" -> PyStr("image/png")
      [] ext = ".gif" -> PyStr("image/gif")
      [] ext = ".pdf" -> PyStr("application/pdf")
      [] OTHER -> PyNone

\* mimetypes.guess_type(url)[0]: the scheme is split off and the extension
\* of what remains is looked up, in lower case.
guess_type(url) ==
    TypesMap(Lower(SplitExt(AfterSchemeAt(url, Find(url, ":", 1), Find(url, "/", 1)))))

B64Table == "ABCDEFGHIJKLMNOPQRSTUVWXYZabcdefghijklmnopqrstuvwxyz0123456789+/"

B64Char(n) == Char(B64Table, n + 1)

\* The four characters of three bytes, n = 65536 a + 256 b + c.
B64Quad(n) ==
    B64Char(n \div 262144) \o B64Char((n \div 4096) % 64)
    \o B64Char((n \div 64) % 64) \o B64Char(n % 64)

\* base64.b64encode(data).decode("utf-8")
RECURSIVE b64encode(_)
b64encode(data) ==
    IF data = << >> THEN ""
    ELSE IF Len(data) = 1 THEN Slice(B64Quad(65536 * data[1]), 1, 2) \o "=="
    ELSE IF Len(data) = 2
         THEN Slice(B64Quad(65536 * data[1] + 256 * data[2]), 1, 3) \o "="
    ELSE B64Quad(65536 * data[1] + 256 * data[2] + data[3])
         \o b64encode(SubSeq(data, 4, Len(data)))

\* What the servers of the model send as an image.
JpegBytes == << 255, 216, 255, 224 >>

PngBytes == << 137, 80, 78, 71 >>

WebPayloads == {JpegBytes, PngBytes}

FormatByte(format) ==
    CASE format = "PNG" -> 137 [] format = "GIF" -> 71 [] format = "JPEG" -> 255

ModeByte(mode) == CASE mode = "RGB" -> 3 [] mode = "RGBA" -> 4

\* Image.open(BytesIO(img_data)).convert(mode).save(img_io, format), lines
\* 100-103.  The image library is outside the program: it knows no format
\* named "JPG", writes no RGBA image as JPEG, and what it writes otherwise
\* is a function of the bytes, the mode and the format.
Reencode(img_data, mode, format) ==
    IF format = "JPG" THEN Raise("KeyError", "JPG")
    ELSE IF format = "JPEG" /\ mode = "RGBA"
         THEN Raise("OSError", "cannot write mode RGBA as JPEG")
    ELSE Return(<< FormatByte(format), ModeByte(mode) >> \o img_data)

\* hashlib.md5(data).hexdigest() of the byte strings the model reaches.
md5(data) ==
    CASE data = << 255, 216, 255, 224 >> -> "d03d864b7f43db9ce34df5f720509d0e"
      [] data = << 137, 3, 255, 216, 255, 224 >> -> "e0ef87d3b094858f975acec6632450fe"
      [] data = << 137, 4, 255, 216, 255, 224 >> -> "9f7404da54a62fef7d107cce24efa176"
      [] data = << 71, 3, 255, 216, 255, 224 >> -> "4b9b9817dcb3612f82a12171bdb01e17"
      [] data = << 71, 4, 255, 216, 255, 224 >> -> "a283c10251492ebaf2b3e44915640366"
      [] data = << 255, 3, 255, 216, 255, 224 >> -> "c1299c0bbbb12d97e8bf47cdc55b4e24"
      [] data = << 137, 80, 78, 71 >> -> "3bdaf5969285188ac756c339f69f5c79"
      [] data = << 137, 3, 137, 80, 78, 71 >> -> "be6079b88d03bd257bcbd32835f418cf"
      [] data = << 137, 4, 137, 80, 78, 71 >> -> "f4bdb65c519fa43ac2851d080ed24caa"
      [] data = << 71, 3, 137, 80, 78, 71 >> -> "77064b2cb4a8ab01b5facf0229713522"
      [] data = << 71, 4, 137, 80, 78, 71 >> -> "627e221ad783a574ac2ff9f5194f6f85"
      [] data = << 255, 3, 137, 80, 78, 71 >> -> "439a341041e5edbb45c5b65ec22ea59a"

\* What change_image_type hands back: the bytes and the MIME type.
Changed(img_data, mime_type) ==
    [k |-> "return", v |-> << img_data, mime_type >>, e |-> "", m |-> ""]

\* Lines 96-104: the type the bytes have is taken from the MIME type, which
\* is None for a locator of unknown extension; bytes of another type than
\* the requested one are written again.
ConvertTo(convert_to_type, pixel_format, mime_type, img_data, file_format, written) ==
    IF convert_to_type = file_format THEN Changed(img_data, mime_type)
    ELSE IF written.k = "raise" THEN written
    ELSE Changed(written.v, PyStr("image/" \o Replace(convert_to_type, "jpg", "jpeg")))

ConvertFrom(convert_to_type, pixel_format, mime_type, img_data) ==
    IF ~IsStr(mime_type)
    THEN Raise("AttributeError", "'NoneType' object has no attribute 'split'")
    ELSE ConvertTo(convert_to_type, pixel_format, mime_type, img_data,
                   Lower(Replace(SplitOn(StrOf(mime_type), "/")[2], "jpeg", "jpg")),
                   Reencode(img_data, Upper(pixel_format), Upper(convert_to_type)))

\* Lines 82-94: the directives are read only when data-convert is present.
ChangeDirected(attrs, mime_type, img_data, convert_to_type, pixel_format) ==
    IF convert_to_type \notin {"png", "jpg", "gif", "jpeg"}
    THEN Raise("ValueError", "Invalid value for data-convert attribute: " \o convert_to_type)
    ELSE IF "data-format" \in DOMAIN attrs /\ pixel_format \notin {"rgb", "rgba"}
    THEN Raise("ValueError", "Invalid value for data-format attribute: " \o pixel_format)
    ELSE ConvertFrom(convert_to_type, pixel_format, mime_type, img_data)

\* html_parse.change_image_type
change_image_type(attrs, mime_type, img_data) ==
    IF "data-convert" \notin DOMAIN attrs THEN Changed(img_data, mime_type)
    ELSE ChangeDirected(attrs, mime_type, img_data,
                        Lower(attrs["data-convert"]),
                        Lower(GetAttr(attrs, "data-format", "RGB")))

\* Line 134
IsHttp(src) == StartsWith(src, "http://") \/ StartsWith(src, "https://")

\* What process_img_element did to the element: its attributes afterwards
\* and the parts it attached.
Processed(attrs, parts) ==
    [k |-> "return", attrs |-> attrs, parts |-> parts, e |-> "", m |-> ""]

Failed(r) == [k |-> "raise", attrs |-> << >>, parts |-> << >>, e |-> r.e, m |-> r.m]

\* Lines 161-163
MimeImage(img_data, subtype, cid) ==
    [payload |-> img_data, type |-> "image/" \o subtype,
     headers |-> ("Content-ID" :> ("<" \o cid \o ">")) @@ ("Content-Disposition" :> "inline")]

\* Lines 149-153
EmbedBase64(attrs, img_ext, img_data) ==
    Processed(SetAttr(SetAttr(attrs, "src",
                  "data:image/" \o img_ext \o ";base64," \o b64encode(img_data)),
                  "data-smtpymailer", ""),
              << >>)

\* Lines 156-168
EmbedCid(attrs, cid, content_type, img_data) ==
    IF ~IsStr(content_type)
    THEN Failed(Raise("AttributeError", "'NoneType' object has no attribute 'split'"))
    ELSE Processed(SetAttr(SetAttr(attrs, "src", "cid:" \o cid), "data-smtpymailer", ""),
                   << MimeImage(img_data, SplitOn(StrOf(content_type), "/")[2], cid) >>)

ContentIdOfBytes(img_data, idx) == md5(img_data)

\* The content identifier of line 157.
ContentId(img_data, idx) == md5(img_data) \o IntStr(idx)

EmbedByCount(attrs, idx, convert_to_base64, src, changed) ==
    IF changed.k = "raise" THEN Failed(changed)
    ELSE IF convert_to_base64
         THEN EmbedBase64(attrs, LStrip(SplitExt(UrlPath(src)), {"."}), changed.v[1])
         ELSE EmbedCid(attrs, ContentId(changed.v[1], Len(message)), changed.v[2], changed.v[1])

\* Lines 146-168: what follows the download.
Embed(attrs, idx, convert_to_base64, src, changed) ==
    IF changed.k = "raise" THEN Failed(changed)
    ELSE IF convert_to_base64
         THEN EmbedBase64(attrs, LStrip(SplitExt(UrlPath(src)), {"."}), changed.v[1])
         ELSE EmbedCid(attrs, ContentId(changed.v[1], idx), changed.v[2], changed.v[1])

\* html_parse.process_img_element, for a downloaded img_data.
process_img_element(attrs, idx, convert_to_base64, img_data) ==
    Embed(attrs, idx, convert_to_base64, GetAttr(attrs, "src", ""),
          change_image_type(attrs, guess_type(GetAttr(attrs, "src", "")), img_data))

(***************************************************************************)
(* convert_img_elements_to_base64 and attach_images_as_cid as a machine:   *)
(* one frame, whose idx is the loop variable of lines 183 and 200, and one *)
(* step per img element.                                                   *)
(***************************************************************************)
ImgFrame == [pc |-> "img", idx |-> 0]

Imgs == FindAllImg(soup, 1)

AtImg == Running("img") /\ Top.idx < Len(Imgs)

\* The img element the loop is at.
CurImg == soup[Imgs[Top.idx + 1]]

CurSrc == GetAttr(CurImg.attrs, "src", "")

NextImgStep == SetTop([Top EXCEPT !.idx = Top.idx + 1])

Request(src, idx, result, data) ==
    [url |-> src, idx |-> idx, result |-> result, data |-> data]

\* Lines 134-135: no request for a source that is not an http(s) URL.
ImgSkip ==
    /\ AtImg
    /\ ~IsHttp(CurSrc)
    /\ stack' = NextImgStep
    /\ UNCHANGED << call, dnsLog, outcome, soup, message, netLog, previous >>

\* Lines 137-143: requests.get or raise_for_status raises a
\* RequestException, and the element is left.
ImgFetchFails ==
    /\ AtImg
    /\ IsHttp(CurSrc)
    /\ netLog' = Append(netLog, Request(CurSrc, Top.idx, "RequestException", << >>))
    /\ stack' = NextImgStep
    /\ UNCHANGED << call, dnsLog, outcome, soup, message, previous >>

\* Line 145: with stream=True the body is read by response.content, after
\* the try statement has been left: a connection that breaks then raises
\* into the caller.
ImgBodyFails ==
    /\ AtImg
    /\ IsHttp(CurSrc)
    /\ netLog' = Append(netLog, Request(CurSrc, Top.idx, "ChunkedEncodingError", << >>))
    /\ stack' = << >>
    /\ outcome' = Raise("ChunkedEncodingError", "")
    /\ UNCHANGED << call, dnsLog, soup, message, previous >>

ImgEmbedded(r) ==
    IF r.k = "raise"
    THEN /\ stack' = << >>
         /\ outcome' = Raise(r.e, r.m)
         /\ UNCHANGED << soup, message >>
    ELSE /\ stack' = NextImgStep
         /\ soup' = [soup EXCEPT ![Imgs[Top.idx + 1]].attrs = r.attrs]
         /\ message' = message \o r.parts
         /\ UNCHANGED outcome

\* Lines 145-168: the bytes arrive and the element is embedded.
ImgEmbed ==
    /\ AtImg
    /\ IsHttp(CurSrc)
    /\ \E img_data \in WebPayloads :
          /\ netLog' = Append(netLog, Request(CurSrc, Top.idx, "ok", img_data))
          /\ ImgEmbedded(process_img_element(CurImg.attrs, Top.idx,
                            call.fn = "convert_img_elements_to_base64", img_data))
    /\ UNCHANGED << call, dnsLog, previous >>

\* Lines 185 and 202: str(soup)
ImgReturn ==
    /\ Running("img")
    /\ Top.idx = Len(Imgs)
    /\ stack' = << >>
    /\ outcome' = Return([t |-> "html", v |-> soup])
    /\ UNCHANGED << call, dnsLog, soup, message, netLog, previous >>

(***************************************************************************)
(* The documents the model rewrites.                                       *)
(***************************************************************************)
\* tests/test_html.py, lines 294-315: the file that exists on disk.
LocalFiles == {"./tests/assets/dog.jpg"}

ImgElements ==
    {Img("src" :> "https://example.com/a.jpg"),
     Img(("src" :> "https://example.com/a.jpg") @@ ("data-convert" :> "PNG")),
     Img(("src" :> "https://example.com/b.png") @@ ("data-convert" :> "gif")
         @@ ("data-format" :> "RGBA") @@ ("alt" :> "b")),
     Img(("src" :> "https://example.com/a.jpg") @@ ("data-convert" :> "webp")),
     Img(("src" :> "https://example.com/b.png") @@ ("data-format" :> "cmyk")),
     Img(("src" :> "htts://example.com/image.jpg") @@ ("alt" :> "c")),
     Img("src" :> "./tests/assets/dog.jpg"),
     Img("src" :> "https://example.com/logo"),
     Img(("src" :> "https://example.com/logo") @@ ("data-convert" :> "png")),
     Img(("src" :> "https://example.com/a.jpg") @@ ("data-smtpymailer" :> "")),
     Img("alt" :> "d"),
     Img(("src" :> "https://example.com/a.jpg") @@ ("data-convert" :> "jpg")),
     Img(("src" :> "https://example.com/a.jpg") @@ ("data-convert" :> "jpeg"))}

\* The text between two img elements of a generated document.
Separators == {"", "\n"}

RECURSIVE Document(_, _)
Document(imgs, sep) ==
    IF imgs = << >> THEN << >>
    ELSE (IF sep = "" THEN << >> ELSE << Text(sep) >>)
         \o << imgs[1] >> \o Document(Tail(imgs), sep)

Documents(elements) ==
    {Document(imgs, sep) :
        imgs \in UNION {[1..n -> elements] : n \in 0..MaxImgs}, sep \in Separators}

ImgCall(fn, html_content) == [fn |-> fn, args |-> << html_content >>]

(***************************************************************************)
(* SpecImg: one call of convert_img_elements_to_base64 or of               *)
(* attach_images_as_cid with a message without parts.                      *)
(***************************************************************************)
InitImg ==
    \E fn \in {"convert_img_elements_to_base64", "attach_images_as_cid"},
       html_content \in Documents(ImgElements) :
        /\ call = ImgCall(fn, html_content)
        /\ stack = << ImgFrame >>
        /\ dnsLog = << >>
        /\ outcome = Pending
        /\ soup = html_content
        /\ message = << >>
        /\ netLog = << >>
        /\ previous = << >>

NextImg ==
    \/ ImgSkip
    \/ ImgFetchFails
    \/ ImgBodyFails
    \/ ImgEmbed
    \/ ImgReturn

SpecImg == InitImg /\ [][NextImg]_vars

(***************************************************************************)
(* SpecImgTwice: attach_images_as_cid is called, and when the call is over *)
(* it is called again, with a new message, on a document that has the     *)
(* same img elements and any text between them.  What the first call left *)
(* behind is kept in previous.                                             *)
(***************************************************************************)
ImgNodes(doc) == [k \in 1..Len(FindAllImg(doc, 1)) |-> doc[FindAllImg(doc, 1)[k]]]

LeftBehind ==
    [html_content |-> call.args[1], soup |-> soup, message |-> message,
     netLog |-> netLog, outcome |-> outcome]

ImgAgain ==
    /\ call.fn = "attach_images_as_cid"
    /\ stack = << >>
    /\ outcome # Pending
    /\ previous = << >>
    /\ previous' = << LeftBehind >>
    /\ \E sep \in Separators :
          /\ call' = ImgCall(call.fn, Document(ImgNodes(call.args[1]), sep))
          /\ soup' = Document(ImgNodes(call.args[1]), sep)
    /\ stack' = << ImgFrame >>
    /\ outcome' = Pending
    /\ message' = << >>
    /\ netLog' = << >>
    /\ UNCHANGED dnsLog

\* The img elements of the documents that are rewritten twice.
TwiceElements ==
    {Img("src" :> "https://example.com/a.jpg"),
     Img(("src" :> "https://example.com/a.jpg") @@ ("data-convert" :> "PNG")),
     Img(("src" :> "https://example.com/a.jpg") @@ ("data-convert" :> "webp")),
     Img(("src" :> "htts://example.com/image.jpg") @@ ("alt" :> "c"))}

InitImgTwice ==
    \E html_content \in Documents(TwiceElements) :
        /\ call = ImgCall("attach_images_as_cid", html_content)
        /\ stack = << ImgFrame >>
        /\ dnsLog = << >>
        /\ outcome = Pending
        /\ soup = html_content
        /\ message = << >>
        /\ netLog = << >>
        /\ previous = << >>

NextImgTwice ==
    \/ ImgSkip
    \/ ImgFetchFails
    \/ ImgBodyFails
    \/ ImgEmbed
    \/ ImgReturn
    \/ ImgAgain

SpecImgTwice == InitImgTwice /\ [][NextImgTwice]_vars

(***************************************************************************)
(* mailer.SmtpMailer.send_email as a machine: one frame, whose pc is the   *)
(* call send_email has come to.  reply_to and template are left at their   *)
(* default None.                                                           *)
(***************************************************************************)
\* utils.ensure_list
ensure_list(value) ==
    IF value.t = "none" THEN << >>
    ELSE IF value.t = "list" THEN value.v
    ELSE << StrOf(value) >>

\* utils.recipients_to_str
recipients_to_str(recipients) ==
    IF Truthy(recipients) THEN Join(ensure_list(recipients), ", ") ELSE ""

\* utils.validate_and_extend, lines 126-128, from the addresses gathered so
\* far: each address is validated, and appended as it was given when the
\* validation returns a true value; the first invalid one raises.
RECURSIVE ValidateEach(_, _)
ValidateEach(all_recipients, recipient_list) ==
    LET r == validate_user_email(recipient_list[1])
    IN  IF recipient_list = << >> THEN Return(PyList(all_recipients))
        ELSE IF r.k = "raise" THEN r
        ELSE ValidateEach(IF Truthy(r.v) THEN Append(all_recipients, recipient_list[1])
                          ELSE all_recipients,
                          Tail(recipient_list))

\* utils.validate_and_extend: a recipient type that is None or empty adds
\* nothing.
validate_and_extend(all_recipients, recipient_type) ==
    IF Truthy(recipient_type) THEN ValidateEach(all_recipients, ensure_list(recipient_type))
    ELSE Return(PyList(all_recipients))

\* One turn of the loop of lines 158-159, which an exception leaves.
ExtendWith(extended, recipient_type) ==
    IF extended.k = "raise" THEN extended
    ELSE validate_and_extend(extended.v.v, recipient_type)

\* A gathering of the recipients that leaves the BCC recipients out.
BuildWithoutBcc(recipients, cc_recipients, bcc_recipients) ==
    IF Len(ensure_list(recipients)) = 0 THEN Raise("ValueError", "No recipients provided")
    ELSE ExtendWith(validate_and_extend(<< >>, recipients), cc_recipients)

\* utils.build_all_recipients_and_validate
build_all_recipients_and_validate(recipients, cc_recipients, bcc_recipients) ==
    IF Len(ensure_list(recipients)) = 0 THEN Raise("ValueError", "No recipients provided")
    ELSE ExtendWith(ExtendWith(validate_and_extend(<< >>, recipients), cc_recipients),
                    bcc_recipients)

SendFrame ==
    [pc |-> "validate_send_email", all_recipients |-> << >>, headers |-> << >>,
     html_content |-> PyNone]

SendArg(n) == call.args[n]

SendRaise(e, m) ==
    /\ stack' = << >>
    /\ outcome' = Raise(e, m)

\* mailer.validate_send_email, lines 140-162, without a template.
SendValidate ==
    /\ Running("validate_send_email")
    /\ IF ~Truthy(SendArg(3))
       THEN SendRaise("ValueError",
                "Please provide either 'html_content' or a jinja template to render")
       ELSE IF ~Truthy(SendArg(2))
       THEN SendRaise("ValueError", "Subject cannot be empty. Please provide a subject")
       ELSE IF ~Truthy(SendArg(1))
       THEN SendRaise("ValueError",
                "Recipients not provided. Please provide a single recipient's email or a list of email addresses")
       ELSE /\ stack' = SetTop([Top EXCEPT !.pc = "build_all_recipients_and_validate"])
            /\ UNCHANGED outcome
    /\ UNCHANGED << call, dnsLog, htmlVars >>

\* Lines 560-562 on the result of build_all_recipients_and_validate: its
\* exception leaves send_email, its list is kept for the envelope.
RecipientsBuilt(all_recipients) ==
    IF all_recipients.k = "raise" THEN SendRaise(all_recipients.e, all_recipients.m)
    ELSE /\ stack' = SetTop([Top EXCEPT !.pc = "_construct_base_message",
                                        !.all_recipients = all_recipients.v.v])
         /\ UNCHANGED outcome

\* Lines 560-562: the To, CC and BCC recipients are gathered and validated.
SendRecipients ==
    /\ Running("build_all_recipients_and_validate")
    /\ RecipientsBuilt(build_all_recipients_and_validate(SendArg(1), SendArg(5), SendArg(6)))
    /\ UNCHANGED << call, dnsLog, htmlVars >>

\* The sender the mailer was constructed with.
Sender == "Sender <sender@example.com>"

\* mailer.SmtpMailer._construct_base_message without a reply-to address:
\* the headers that hold what the caller gave.  Date and Message-Id come
\* from the clock and the host.
construct_base_message(subject, recipients, cc_recipients) ==
    ("Subject" :> subject) @@ ("To" :> recipients) @@ ("From" :> Sender)
    @@ (IF cc_recipients # "" THEN "Cc" :> cc_recipients ELSE << >>)

\* Lines 564-571: the base message, which has no part yet.
SendBuild ==
    /\ Running("_construct_base_message")
    /\ stack' = SetTop([Top EXCEPT
          !.pc = "make_html_content",
          !.headers = construct_base_message(StrOf(SendArg(2)),
                          recipients_to_str(SendArg(1)), recipients_to_str(SendArg(5)))])
    /\ message' = << >>
    /\ UNCHANGED << call, dnsLog, outcome, soup, netLog, previous >>

\* html_parse.make_html_content: the html text when there is one, and the
\* rendered template otherwise.
make_html_content(html_content, rendered) ==
    IF Truthy(html_content) THEN html_content ELSE rendered

\* Lines 573-578
SendContent ==
    /\ Running("make_html_content")
    /\ stack' = SetTop([Top EXCEPT !.pc = "_make_plain_message",
                                   !.html_content = make_html_content(SendArg(3), PyNone)])
    /\ UNCHANGED << call, dnsLog, outcome, htmlVars >>

\* A text part of the alternative part.  What html2text makes of the html
\* text is left out of the plain part.
TextPart(subtype, payload) ==
    [payload |-> payload, type |-> "text/" \o subtype, headers |-> << >>]

\* Lines 481 and 482: the alternative part, which holds the text parts.
AlternativePart(parts) ==
    [payload |-> parts, type |-> "multipart/alternative", headers |-> << >>]

\* mailer.SmtpMailer._make_plain_message
SendPlain ==
    /\ Running("_make_plain_message")
    /\ stack' = SetTop([Top EXCEPT !.pc = "_make_html_message"])
    /\ message' = Append(message, AlternativePart(<< TextPart("plain", << >>) >>))
    /\ UNCHANGED << call, dnsLog, outcome, soup, netLog, previous >>

\* The img elements of an html text: a text given as a string has none.
HtmlNodes(html_content) == IF html_content.t = "html" THEN html_content.v ELSE << >>

\* How a request for an image can end.
FetchResults ==
    {Request("", 0, "RequestException", << >>), Request("", 0, "ChunkedEncodingError", << >>)}
    \cup {Request("", 0, "ok", img_data) : img_data \in WebPayloads}

Altered(k, doc, parts, log, e, m) ==
    [k |-> k, soup |-> doc, parts |-> parts, log |-> log, e |-> e, m |-> m]

RECURSIVE AlterImgs(_, _, _, _, _, _)

\* Lines 146-168 for element idx, and the elements after it.
AlterNext(doc, idx, convert_to_base64, fetches, parts, log, processed) ==
    IF processed.k = "raise"
    THEN Altered("raise", doc, parts, log, processed.e, processed.m)
    ELSE AlterImgs([doc EXCEPT ![FindAllImg(doc, 1)[idx + 1]].attrs = processed.attrs],
                   idx + 1, convert_to_base64, fetches, parts \o processed.parts, log)

\* The loops of html_parse.convert_img_elements_to_base64 and of
\* html_parse.attach_images_as_cid from element idx on, where fetches[i] is
\* how the request for element i - 1 ends if it is made: the document, the
\* parts attached and the requests made, or the exception that ended it.
AlterImgs(doc, idx, convert_to_base64, fetches, parts, log) ==
    IF idx >= Len(FindAllImg(doc, 1)) THEN Altered("return", doc, parts, log, "", "")
    ELSE IF ~IsHttp(GetAttr(doc[FindAllImg(doc, 1)[idx + 1]].attrs, "src", ""))
    THEN AlterImgs(doc, idx + 1, convert_to_base64, fetches, parts, log)
    ELSE IF fetches[idx + 1].result = "RequestException"
    THEN AlterImgs(doc, idx + 1, convert_to_base64, fetches, parts,
                   Append(log, Request(doc[FindAllImg(doc, 1)[idx + 1]].attrs["src"], idx,
                                       "RequestException", << >>)))
    ELSE IF fetches[idx + 1].result = "ChunkedEncodingError"
    THEN Altered("raise", doc, parts,
                 Append(log, Request(doc[FindAllImg(doc, 1)[idx + 1]].attrs["src"], idx,
                                     "ChunkedEncodingError", << >>)),
                 "ChunkedEncodingError", "")
    ELSE AlterNext(doc, idx, convert_to_base64, fetches, parts,
                   Append(log, Request(doc[FindAllImg(doc, 1)[idx + 1]].attrs["src"], idx,
                                       "ok", fetches[idx + 1].data)),
                   process_img_element(doc[FindAllImg(doc, 1)[idx + 1]].attrs, idx,
                                       convert_to_base64, fetches[idx + 1].data))

\* html_parse.alter_img_html, lines 332-338
alter_img_html(html_content, alter_img_src, fetches) ==
    IF ~Truthy(alter_img_src) \/ Lower(StrOf(alter_img_src)) \notin {"base64", "cid"}
    THEN Altered("return", HtmlNodes(html_content), << >>, << >>, "", "")
    ELSE AlterImgs(HtmlNodes(html_content), 0, Lower(StrOf(alter_img_src)) = "base64",
                   fetches, << >>, << >>)

\* Lines 505-510: an exception of the rewrite leaves send_email; otherwise
\* the parts of the images follow the alternative part, which takes the
\* html part.
HtmlMade(altered, next) ==
    /\ netLog' = netLog \o altered.log
    /\ IF altered.k = "raise"
       THEN /\ SendRaise(altered.e, altered.m)
            /\ message' = message \o altered.parts
       ELSE /\ stack' = SetTop([Top EXCEPT !.pc = next])
            /\ message' =
                  << AlternativePart(Append(message[1].payload,
                        TextPart("html", IF Top.html_content.t = "html" THEN altered.soup
                                         ELSE StrOf(Top.html_content)))) >>
                  \o altered.parts
            /\ UNCHANGED outcome

\* A rewrite after which the message is sent without its attachments.
SendHtmlThenSend ==
    /\ Running("_make_html_message")
    /\ \E fetches \in [1..Len(FindAllImg(HtmlNodes(Top.html_content), 1)) -> FetchResults] :
          HtmlMade(alter_img_html(Top.html_content, SendArg(7), fetches), "_send_message")
    /\ UNCHANGED << call, dnsLog, soup, previous >>

\* mailer.SmtpMailer._make_html_message
SendHtml ==
    /\ Running("_make_html_message")
    /\ \E fetches \in [1..Len(FindAllImg(HtmlNodes(Top.html_content), 1)) -> FetchResults] :
          HtmlMade(alter_img_html(Top.html_content, SendArg(7), fetches), "_add_attachments")
    /\ UNCHANGED << call, dnsLog, soup, previous >>

\* The files on disk, and what they hold.
AttachmentFiles == {"report.pdf", "logo.png"}

FileBytes(path) == IF path = "logo.png" THEN PngBytes ELSE << 37, 80, 68, 70 >>

\* Line 407-408: what is not a list becomes a list of one element.
AttachmentList(attachments) ==
    IF attachments.t = "list" THEN [i \in 1..Len(attachments.v) |-> PyStr(attachments.v[i])]
    ELSE << attachments >>

\* Lines 410-412
IsAttachable(attachment_file_path) ==
    IsStr(attachment_file_path) /\ StrOf(attachment_file_path) \in AttachmentFiles

MimeTypeOf(mime_type) ==
    IF IsStr(mime_type) THEN StrOf(mime_type) ELSE "application/octet-stream"

\* Lines 413-427
AttachmentPart(path) ==
    [payload |-> FileBytes(path), type |-> MimeTypeOf(guess_type(path)),
     headers |-> ("Content-Disposition" :> ("attachment; filename=" \o path))]

\* Lines 409-441: the parts of the paths before the first element that is
\* not the path of a file, and whether there is such an element.
RECURSIVE AddAttachments(_)
AddAttachments(paths) ==
    IF paths = << >> THEN [parts |-> << >>, ok |-> TRUE]
    ELSE IF ~IsAttachable(paths[1]) THEN [parts |-> << >>, ok |-> FALSE]
    ELSE [AddAttachments(Tail(paths)) EXCEPT
             !.parts = << AttachmentPart(StrOf(paths[1])) >> \o @]

AttachmentsAdded(added) ==
    /\ message' = message \o added.parts
    /\ IF added.ok
       THEN /\ stack' = SetTop([Top EXCEPT !.pc = "_send_message"])
            /\ UNCHANGED outcome
       ELSE SendRaise("Exception", "Invalid or non existent attachment file path")

\* mailer.SmtpMailer._add_attachments
SendAttach ==
    /\ Running("_add_attachments")
    /\ AttachmentsAdded(AddAttachments(AttachmentList(SendArg(4))))
    /\ UNCHANGED << call, dnsLog, soup, netLog, previous >>

\* Line 352: server.sendmail(str(self.sender), recipients,
\* self.message.as_string()), and how it ended.
Sendmail(to_addrs, headers, result) ==
    Request("smtp", 0, result, << >>)
    @@ [from_addr |-> Sender, to_addrs |-> to_addrs, headers |-> headers]

\* mailer.SmtpMailer._send_message: the server takes the message and True
\* is returned, or connecting or sending raises and Exception is raised.
SendMessage ==
    /\ Running("_send_message")
    /\ stack' = << >>
    /\ \E accepted \in BOOLEAN :
          /\ netLog' = Append(netLog,
                 Sendmail(Top.all_recipients, Top.headers,
                          IF accepted THEN "ok" ELSE "SMTPException"))
          /\ outcome' = IF accepted THEN Return(PyBool(TRUE))
                        ELSE Raise("Exception", "Failed to send message")
    /\ UNCHANGED << call, dnsLog, soup, message, previous >>

SendRecipientArgs ==
    {PyStr("to@example.com"), PyList(<< "a@example.com", "b@example.org" >>),
     PyStr("not-an-address"), PyList(<< "a@example.com", "b@" >>),
     PyStr(""), PyList(<< >>), PyNone}

SendSubjectArgs == {PyStr("Hello"), PyStr("")}

\* An html text with img elements is given as its elements.
PyHtml(doc) == [t |-> "html", v |-> doc]

SendHtmlArgs ==
    {PyStr("<p>Hi</p>"), PyStr(""), PyNone,
     PyHtml(<< Text("Hi"), Img("src" :> "https://example.com/a.jpg") >>),
     PyHtml(<< Img("src" :> "https://example.com/logo"),
               Img(("src" :> "https://example.com/b.png") @@ ("data-convert" :> "jpg")) >>)}

SendAlterArgs == {PyNone, PyStr("cid"), PyStr("BASE64")}

SendAttachmentArgs ==
    {PyNone, PyList(<< >>), PyStr("report.pdf"), PyStr("missing.pdf"),
     PyList(<< "report.pdf", "logo.png" >>), PyList(<< "logo.png", "missing.pdf" >>)}

SendCcArgs ==
    {PyNone, PyStr(""), PyStr("cc@example.com"), PyList(<< "c1@example.com", "c2@" >>)}

SendBccArgs ==
    {PyNone, PyList(<< >>), PyStr("bcc@example.org"),
     PyList(<< "b1@example.com", "a@example.com" >>), PyStr("bcc@")}

SendCall(recipients, subject, html_content, attachments, cc_recipients, bcc_recipients, alter_img_src) ==
    [fn |-> "send_email",
     args |-> << recipients, subject, html_content, attachments,
                 cc_recipients, bcc_recipients, alter_img_src >>]

(***************************************************************************)
(* SpecSend: one call of send_email.                                       *)
(***************************************************************************)
InitSend ==
    \E recipients \in SendRecipientArgs, subject \in SendSubjectArgs,
       html_content \in SendHtmlArgs, attachments \in SendAttachmentArgs,
       cc_recipients \in SendCcArgs, bcc_recipients \in SendBccArgs,
       alter_img_src \in SendAlterArgs :
        /\ call = SendCall(recipients, subject, html_content, attachments,
                           cc_recipients, bcc_recipients, alter_img_src)
        /\ stack = << SendFrame >>
        /\ dnsLog = << >>
        /\ outcome = Pending
        /\ soup = << >>
        /\ message = << >>
        /\ netLog = << >>
        /\ previous = << >>

NextSend ==
    \/ SendValidate
    \/ SendRecipients
    \/ SendBuild
    \/ SendContent
    \/ SendPlain
    \/ SendHtml
    \/ SendAttach
    \/ SendMessage

SpecSend == InitSend /\ [][NextSend]_vars

(***************************************************************************)
(* mailer.SmtpMailer.__init__ as a machine.  The frame of __init__ is the  *)
(* bottom of the stack; it holds the records _validate_auth_setup looked   *)
(* up and what spf_check returned, and the frames of spf_check run above   *)
(* it.  When the construction is over the frame stays, with pc "done".     *)
(***************************************************************************)
CtorFrame ==
    [pc |-> "_setup_email_server_auth", dmarc |-> << >>, spf |-> << >>,
     dkim |-> << >>, spf_result |-> Pending]

Self == stack[1]

InCtor(pc) == Len(stack) = 1 /\ Self.pc = pc

CtorGoto(pc) == stack' = << [Self EXCEPT !.pc = pc] >>

CtorEnd(ret) ==
    /\ stack' = << [Self EXCEPT !.pc = "done"] >>
    /\ outcome' = ret

\* Contact.get_domain, line 105
SenderDomain == SplitOn(StrOf(call.args[1]), "@")[2]

\* Lines 224-225: the sender address is validated, and the configured
\* server is connected to and logged in to.
CtorSetup ==
    /\ InCtor("_setup_email_server_auth")
    /\ IF ~validate_email(StrOf(call.args[1]))
       THEN /\ CtorEnd(Raise("EmailNotValidError", ""))
            /\ UNCHANGED netLog
       ELSE \E connected \in BOOLEAN :
               /\ netLog' = Append(netLog,
                      Request("smtp", 0, IF connected THEN "ok" ELSE "SMTPException", << >>))
               /\ IF connected
                  THEN CtorGoto("_validate_auth_setup") /\ UNCHANGED outcome
                  ELSE CtorEnd(Raise("Exception",
                          "Invalid server connection details, please check and try again"))
    /\ UNCHANGED << call, dnsLog, soup, message, previous >>

\* What the resolver of line 244 may answer, quotes included.
DmarcAnswers ==
    {<< >>, << "\"v=DMARC1; p=none;\"" >>, << "\"v=DMARC1; pct=200;\"" >>,
     << "\"v=DMARC1; p=reject; rua=mailto:abc@example.org;\"", "\"v=DMARC1; pct=200;\"" >>}

TxtAnswers ==
    {<< >>, << "\"google-site-verification=abc\"" >>,
     << "\"google-site-verification=abc\"", "\"v=spf1 ip4:192.0.2.0/24 -all\"" >>,
     << "\"v=spf1 include:example.com ~all\"" >>,
     << "\"v=spf1 ip6:2001:0db8::/32 -all\"" >>,
     << "\"myspf=1\"" >>}

DkimAnswers ==
    {<< >>, << "\"v=DKIM1; k=rsa; p=QUJD\"" >>, << "\"v=DKIM1; p=abc\"" >>,
     << "\"v=DKIM1; k=rsa;\"" >>, << "\"k=rsa; p=QUJD\"" >>}

\* [x for x in answers if word in x]
RECURSIVE Having(_, _)
Having(answers, word) ==
    IF answers = << >> THEN << >>
    ELSE (IF Find(answers[1], word, 1) # 0 THEN << answers[1] >> ELSE << >>)
         \o Having(Tail(answers), word)

\* Lines 244-256: the three lookups.
CtorQuery ==
    /\ InCtor("_validate_auth_setup")
    /\ \E dmarc \in DmarcAnswers, txt \in TxtAnswers, dkim \in DkimAnswers :
          /\ dnsLog' = dnsLog \o << << "TXT", "_dmarc." \o SenderDomain >>,
                                    << "TXT", SenderDomain >>,
                                    << "TXT", "mail._domainkey." \o SenderDomain >> >>
          /\ stack' = << [Self EXCEPT !.pc = "dmarc", !.dmarc = dmarc,
                                      !.spf = Having(txt, "spf"),
                                      !.dkim = Having(dkim, "DKIM")] >>
    /\ UNCHANGED << call, outcome, htmlVars >>

\* "not records or not validator(records[0])": no record, or a false
\* result, raises Exception; what the validator raises goes on to the
\* caller.
Checked(records, result, what) ==
    IF records = << >> THEN Raise("Exception", what \o " record is not valid")
    ELSE IF result.k = "raise" THEN result
    ELSE IF ~Truthy(result.v) THEN Raise("Exception", what \o " record is not valid")
    ELSE Return(PyNone)

\* Lines 258-259
CtorDmarcChecked(dmarc) ==
    Checked(dmarc, validate_dmarc_record(PyStr(dmarc[1])), "DMARC")

CtorDkimUnchecked(dkim) == Return(PyNone)

\* Lines 262-263
CtorDkimChecked(dkim) ==
    Checked(dkim, validate_dkim_record(PyStr(dkim[1])), "DKIM")

CtorAfter(checked, pc) ==
    IF checked.k = "raise" THEN CtorEnd(checked)
    ELSE CtorGoto(pc) /\ UNCHANGED outcome

CtorDmarc ==
    /\ InCtor("dmarc")
    /\ CtorAfter(CtorDmarcChecked(Self.dmarc), "spf")
    /\ UNCHANGED << call, dnsLog, htmlVars >>

\* spf_check(spf[0], **get_address_type(self.mail_server)): the key of the
\* dictionary names the argument, and spf_check has no argument "invalid".
SpfCheckCall(record, key, address) ==
    CASE key = "ipv4" -> NewFrame(record, address, PyNone, PyNone)
      [] key = "ipv6" -> NewFrame(record, PyNone, address, PyNone)
      [] key = "domain" -> NewFrame(record, PyNone, PyNone, address)

CtorSpfCalled(record, kwargs) ==
    IF kwargs[1] = "invalid"
    THEN CtorEnd(Raise("TypeError",
            "spf_check() got an unexpected keyword argument 'invalid'"))
    ELSE /\ stack' = << [Self EXCEPT !.pc = "spf_check"],
                        SpfCheckCall(record, kwargs[1], kwargs[2]) >>
         /\ UNCHANGED outcome

\* Line 260: without an SPF record Exception is raised; else spf_check is
\* called for the classified mail server.
CtorSpf ==
    /\ InCtor("spf")
    /\ IF Self.spf = << >>
       THEN CtorEnd(Raise("Exception", "SPF record is not valid"))
       ELSE CtorSpfCalled(Self.spf[1], get_address_type(call.args[2]).v.v[1])
    /\ UNCHANGED << call, dnsLog, htmlVars >>

\* A recursive call of spf_check returns to spf_check.
CtorSpfUnwind ==
    /\ Len(stack) > 2
    /\ SpfUnwind

\* Lines 260-261: spf_check returns to _validate_auth_setup.
CtorSpfReturn ==
    /\ Len(stack) = 2
    /\ Running("done")
    /\ IF Top.ret.k = "raise"
       THEN /\ stack' = << [Self EXCEPT !.pc = "done", !.spf_result = Top.ret] >>
            /\ outcome' = Top.ret
       ELSE IF ~Truthy(Top.ret.v)
       THEN /\ stack' = << [Self EXCEPT !.pc = "done", !.spf_result = Top.ret] >>
            /\ outcome' = Raise("Exception", "SPF record is not valid")
       ELSE /\ stack' = << [Self EXCEPT !.pc = "dkim", !.spf_result = Top.ret] >>
            /\ UNCHANGED outcome
    /\ UNCHANGED << call, dnsLog, htmlVars >>

\* Lines 262-263, and the end of __init__.
CtorDkim ==
    /\ InCtor("dkim")
    /\ CtorEnd(CtorDkimChecked(Self.dkim))
    /\ UNCHANGED << call, dnsLog, htmlVars >>

CtorSenders == {"sender@example.org", "not-an-address"}

CtorMailServers ==
    {"192.0.2.1", "203.0.113.1", "2001:0db8::1234", "example.com", "mail server",
     "localhost"}

(***************************************************************************)
(* SpecCtor: one construction of an SmtpMailer.                            *)
(***************************************************************************)
InitCtor ==
    \E sender_email \in CtorSenders, mail_server \in CtorMailServers :
        /\ call = [fn |-> "SmtpMailer", args |-> << PyStr(sender_email), PyStr(mail_server) >>]
        /\ stack = << CtorFrame >>
        /\ dnsLog = << >>
        /\ outcome = Pending
        /\ soup = << >>
        /\ message = << >>
        /\ netLog = << >>
        /\ previous = << >>

NextCtor ==
    \/ CtorSetup
    \/ CtorQuery
    \/ CtorDmarc
    \/ CtorSpf
    \/ SpfResolve
    \/ SpfParse
    \/ SpfInclude
    \/ SpfAnswer
    \/ SpfIp4
    \/ SpfIp6
    \/ SpfSkip
    \/ SpfEnd
    \/ CtorSpfUnwind
    \/ CtorSpfReturn
    \/ CtorDkim

SpecCtor == InitCtor /\ [][NextCtor]_vars

(***************************************************************************)
(* Claims about the image embedding.                                       *)
(***************************************************************************)
IsCid == call.fn = "attach_images_as_cid"

IsBase64 == call.fn = "convert_img_elements_to_base64"

\* The call is over: it returned or it raised.
ImgDone == (IsCid \/ IsBase64) /\ stack = << >> /\ outcome # Pending

ImgReturned == ImgDone /\ outcome.k = "return"

\* The img elements of the document the call was given, counted from 0.
ImgIndices == 0..(Len(FindAllImg(call.args[1], 1)) - 1)

ImgOf(doc, i) == doc[FindAllImg(doc, 1)[i + 1]]

Before(i) == ImgOf(call.args[1], i).attrs

After(i) == ImgOf(soup, i).attrs

SrcBefore(i) == GetAttr(Before(i), "src", "")

\* The bytes of element i arrived.
Retrieved(i) == \E k \in 1..Len(netLog) : netLog[k].idx = i /\ netLog[k].result = "ok"

\* Element i has no fetchable locator, or its request failed.
Unreachable(i) ==
    \/ ~IsHttp(SrcBefore(i))
    \/ \E k \in 1..Len(netLog) : netLog[k].idx = i /\ netLog[k].result # "ok"

\* The loop came to element i.
Visited(i) ==
    \/ ~IsHttp(SrcBefore(i))
    \/ \E k \in 1..Len(netLog) : netLog[k].idx = i

\* What follows the 32 digits of the digest in a part's Content-ID.
PartIndex(part) ==
    Slice(part.headers["Content-ID"], 34, Len(part.headers["Content-ID"]) - 1)

\* The parts attached for element i.
PartsOf(i) == {k \in 1..Len(message) : PartIndex(message[k]) = IntStr(i)}

\* C12: in both modes, when the call is over an img element whose fetch
\* failed or whose locator cannot be fetched has the attributes it had,
\* has no part attached, and the img element after it was processed; a
\* cid-mode call that returns on a document of one retrieved and one
\* unreachable image leaves exactly one part.
C12_UnreachableImageLeftAlone ==
    ImgDone =>
        /\ \A i \in ImgIndices :
              Unreachable(i) =>
                  /\ After(i) = Before(i)
                  /\ PartsOf(i) = {}
                  /\ (i + 1) \in ImgIndices => Visited(i + 1)
        /\ (/\ ImgReturned /\ IsCid
            /\ Cardinality(ImgIndices) = 2
            /\ \E i, j \in ImgIndices : Unreachable(i) /\ Retrieved(j))
           => Len(message) = 1

\* The bytes that arrived for element i.
Fetched(i) ==
    netLog[CHOOSE k \in 1..Len(netLog) : netLog[k].idx = i /\ netLog[k].result = "ok"].data

\* What the directives of element i make of the bytes that arrived.
FinalOf(i) == change_image_type(Before(i), guess_type(SrcBefore(i)), Fetched(i))

HasPart(i, final, cid) ==
    /\ Cardinality(PartsOf(i)) = 1
    /\ \A k \in PartsOf(i) :
          /\ message[k].headers["Content-ID"] = "<" \o cid \o ">"
          /\ message[k].headers["Content-Disposition"] = "inline"
          /\ message[k].payload = final
    /\ After(i)["src"] = "cid:" \o cid

Attached(i, final) ==
    /\ final.k = "return"
    /\ HasPart(i, final.v[1], md5(final.v[1]) \o IntStr(i))

\* C13: when a cid-mode call is over, and was not ended by the ValueError
\* of an unsupported directive, the message has as many parts as there are
\* img elements whose bytes arrived, and each such element i, counted from
\* 0 among all img elements, has exactly one part, whose Content-ID is
\* the md5 digest of the final bytes followed by i, whose disposition is
\* inline and whose payload is the final bytes, and its src is "cid:" and
\* that identifier.
C13_OnePartPerRetrievedImage ==
    (ImgDone /\ IsCid /\ ~Raised("ValueError")) =>
        /\ Len(message) = Cardinality({i \in ImgIndices : Retrieved(i)})
        /\ \A i \in ImgIndices : Retrieved(i) => Attached(i, FinalOf(i))

\* The identifier element i refers to after the rewrite, "" if it has none.
CidOf(i) ==
    IF StartsWith(GetAttr(After(i), "src", ""), "cid:")
    THEN Slice(After(i)["src"], 5, Len(After(i)["src"])) ELSE ""

\* C14: at every moment of a cid-mode call no two attached parts carry the
\* same Content-ID and no two img elements refer to the same identifier,
\* whether or not their bytes are the same.
C14_DistinctIdentifiers ==
    IsCid =>
        /\ \A j, k \in 1..Len(message) :
              j # k => message[j].headers["Content-ID"] # message[k].headers["Content-ID"]
        /\ \A i, j \in ImgIndices :
              (i # j /\ CidOf(i) # "") => CidOf(i) # CidOf(j)

\* Two img elements with the same bytes have been embedded.
C14_Reached ==
    /\ ImgReturned /\ IsCid
    /\ Len(message) = 2
    /\ message[1].payload = message[2].payload
    /\ CidOf(0) # "" /\ CidOf(1) # ""

CidIn(attrs) ==
    IF StartsWith(GetAttr(attrs, "src", ""), "cid:")
    THEN Slice(attrs["src"], 5, Len(attrs["src"])) ELSE ""

RetrievedIn(log, i) == \E k \in 1..Len(log) : log[k].idx = i /\ log[k].result = "ok"

FetchedIn(log, i) ==
    log[CHOOSE k \in 1..Len(log) : log[k].idx = i /\ log[k].result = "ok"].data

ContentIdsIn(parts, i) ==
    {parts[k].headers["Content-ID"] : k \in {k \in 1..Len(parts) : PartIndex(parts[k]) = IntStr(i)}}

\* The earlier call.
Earlier == previous[1]

EarlierAfter(i) == ImgOf(Earlier.soup, i).attrs

\* Element i got the same bytes and an identifier in both calls.
SameBytesTwice(i) ==
    /\ RetrievedIn(netLog, i) /\ RetrievedIn(Earlier.netLog, i)
    /\ FetchedIn(netLog, i) = FetchedIn(Earlier.netLog, i)
    /\ CidIn(After(i)) # "" /\ CidIn(EarlierAfter(i)) # ""

\* C15: of two cid-mode calls on documents with the same img elements,
\* the same or differing in the text between them, an img element that
\* got the same bytes in both has the same identifier in both, in its src
\* and on its part, whatever became of the other elements' fetches.
C15_SameBytesSameIdentifier ==
    (IsCid /\ previous # << >>) =>
        \A i \in ImgIndices :
            SameBytesTwice(i) =>
                /\ CidIn(After(i)) = CidIn(EarlierAfter(i))
                /\ ContentIdsIn(message, i) = ContentIdsIn(Earlier.message, i)

\* Two calls on documents that differ in whitespace: one element got the
\* same bytes twice, another was retrieved in one call only.
C15_Reached ==
    /\ IsCid /\ previous # << >> /\ ImgReturned
    /\ call.args[1] # Earlier.html_content
    /\ \E i, j \in ImgIndices :
          /\ i # j
          /\ SameBytesTwice(i)
          /\ RetrievedIn(netLog, j) # RetrievedIn(Earlier.netLog, j)

\* The directives of an img element name a container format or a pixel
\* format that is not supported.
Unsupported(attrs) ==
    \/ /\ "data-convert" \in DOMAIN attrs
       /\ Lower(attrs["data-convert"]) \notin {"png", "jpg", "jpeg", "gif"}
    \/ /\ "data-format" \in DOMAIN attrs
       /\ Lower(attrs["data-format"]) \notin {"rgb", "rgba"}

\* C16: in both modes, a call on a document with an img element that
\* carries an unsupported data-convert or data-format directive ends in
\* ValueError, whether the element's fetch succeeds or fails.
C16_UnsupportedDirectiveRaises ==
    (ImgDone /\ \E i \in ImgIndices : Unsupported(Before(i))) => Raised("ValueError")

Embedded(attrs) ==
    /\ "data-smtpymailer" \in DOMAIN attrs
    /\ IF IsBase64 THEN StartsWith(GetAttr(attrs, "src", ""), "data:image/")
       ELSE StartsWith(GetAttr(attrs, "src", ""), "cid:")

\* C17: when the call has returned, an img element whose src is the path
\* of an existing local file has been embedded in the call's mode, and an
\* element whose src is neither such a path nor an http(s) URL has the
\* attributes it had.
C17_LocalFileEmbedded ==
    ImgReturned =>
        \A i \in ImgIndices :
            /\ SrcBefore(i) \in LocalFiles => Embedded(After(i))
            /\ (SrcBefore(i) \notin LocalFiles /\ ~IsHttp(SrcBefore(i)))
                  => After(i) = Before(i)

\* The extension of a locator, without its dot.
ExtensionOf(src) == LStrip(SplitExt(UrlPath(src)), {"."})

DataUri(attrs, ext, final) ==
    /\ final.k = "return"
    /\ GetAttr(attrs, "src", "") = "data:image/" \o ext \o ";base64," \o b64encode(final.v[1])
    /\ GetAttr(attrs, "data-smtpymailer", "absent") = ""

\* C18: when a base64-mode call is over, and was not ended by the
\* ValueError of an unsupported directive, every img element whose bytes
\* arrived has the src "data:image/<ext>;base64,<base64 of the final
\* bytes>", <ext> being the extension of the src it had, and the marker
\* attribute data-smtpymailer; no part is attached and no src is a cid:
\* reference.
C18_Base64DataUri ==
    (ImgDone /\ IsBase64 /\ ~Raised("ValueError")) =>
        /\ message = << >>
        /\ \A i \in ImgIndices :
              /\ Retrieved(i) => DataUri(After(i), ExtensionOf(SrcBefore(i)), FinalOf(i))
              /\ CidIn(After(i)) = ""

(***************************************************************************)
(* Claims about the mailer.                                                *)
(***************************************************************************)
SendDone == call.fn = "send_email" /\ stack = << >> /\ outcome # Pending

\* Recipients that are all valid addresses, a subject and an html text.
ValidSendArgs ==
    /\ ensure_list(SendArg(1)) # << >>
    /\ \A i \in 1..Len(ensure_list(SendArg(1))) : validate_email(ensure_list(SendArg(1))[i])
    /\ \A n \in {5, 6} :
          Truthy(SendArg(n)) =>
             \A i \in 1..Len(ensure_list(SendArg(n))) : validate_email(ensure_list(SendArg(n))[i])
    /\ Truthy(SendArg(2))
    /\ Truthy(SendArg(3))

\* The message was handed to the server, which took it.
Accepted == \E k \in 1..Len(netLog) : netLog[k].url = "smtp" /\ netLog[k].result = "ok"

SendReached == \E k \in 1..Len(netLog) : netLog[k].url = "smtp"

\* C19: a send_email call with valid recipients, a subject and an html
\* text, and with attachments left at None, hands the message to the
\* server, and returns True when the server took it.
C19_SendsWithoutAttachments ==
    (SendDone /\ ValidSendArgs /\ SendArg(4) = PyNone) =>
        /\ SendReached
        /\ Accepted => outcome = Return(PyBool(TRUE))

CtorDone == call.fn = "SmtpMailer" /\ outcome # Pending

CtorCompleted == CtorDone /\ outcome.k = "return"

\* A record was found and its validator returned a true value.
Passes(records, result) ==
    records # << >> /\ result.k = "return" /\ Truthy(result.v)

\* C20: a construction that is over has completed or raised, and it has
\* completed only if a DMARC record was found and validate_dmarc_record
\* returns true on it, an SPF record was found and spf_check returned true
\* for the classified mail server, and a DKIM record was found and
\* validate_dkim_record returns true on it.
C20_CompletesOnlyAuthenticated ==
    CtorDone =>
        /\ outcome.k \in {"return", "raise"}
        /\ CtorCompleted =>
              /\ Passes(Self.dmarc, validate_dmarc_record(PyStr(Self.dmarc[1])))
              /\ Passes(Self.spf, Self.spf_result)
              /\ get_address_type(call.args[2]).v.v[1][1] \in {"ipv4", "ipv6", "domain"}
              /\ Passes(Self.dkim, validate_dkim_record(PyStr(Self.dkim[1])))

\* A construction has completed.
C20_Reached == CtorCompleted /\ Len(dnsLog) >= 3

\* The addresses an argument names: none when it is None or empty.
Given(arg) == IF Truthy(arg) THEN ensure_list(arg) ELSE << >>

GivenAll == Given(SendArg(1)) \o Given(SendArg(5)) \o Given(SendArg(6))

AllValid(addresses) == \A i \in 1..Len(addresses) : validate_email(addresses[i])

\* The sendmail calls made so far.
Sent == {k \in 1..Len(netLog) : netLog[k].url = "smtp"}

\* The addresses given as BCC only.
BccOnly == Range(Given(SendArg(6))) \ (Range(Given(SendArg(1))) \cup Range(Given(SendArg(5))))

\* The To and Cc headers hold the To and the CC recipients, and no header
\* holds an address given as BCC only.
HeadersWithoutBcc(headers) ==
    /\ headers["To"] = Join(Given(SendArg(1)), ", ")
    /\ IF Given(SendArg(5)) = << >> THEN "Cc" \notin DOMAIN headers
       ELSE headers["Cc"] = Join(Given(SendArg(5)), ", ")
    /\ \A b \in BccOnly : \A h \in DOMAIN headers : Find(headers[h], b, 1) = 0

MatchAt(f, j) ==
    \/ /\ StartsWith(f.parts[j], "ip4:")
       /\ \E c \in CandidateSet(f.ipv4) : Inside(c, Slice(f.parts[j], 5, Len(f.parts[j])))
    \/ /\ StartsWith(f.parts[j], "ip6:")
       /\ \E c \in CandidateSet(f.ipv6) : Inside(c, Slice(f.parts[j], 5, Len(f.parts[j])))
    \/ IsStr(f.domain) /\ f.parts[j] = "include:" \o StrOf(f.domain)

\* The frame on top has returned True.
Matched == Running("done") /\ Top.ret = Return(PyBool(TRUE))

\* After a match the frames only unwind: no lookup, and True is handed to
\* the caller, which returns it at the part it had reached.
UnwindsTrue ==
    /\ dnsLog' = dnsLog
    /\ stack' = IF Len(stack) = 1 THEN << >>
                ELSE Append(SubSeq(stack, 1, Len(stack) - 2),
                            Finish(stack[Len(stack) - 1], Return(PyBool(TRUE))))
    /\ Len(stack) = 1 => outcome' = Return(PyBool(TRUE))

\* C22: no frame has gone past a part that matches; the frame on top at a
\* part that matches returns True in that step, without a lookup; and once
\* a frame has returned True every further step hands True to the caller,
\* with no lookup and no part evaluated, up to the result of the call.
C22_FirstMatchReturns ==
    [][/\ \A d \in 1..Len(stack) : \A j \in 2..(stack[d].i - 1) : ~MatchAt(stack[d], j)
       /\ (Running("token") /\ Top.i <= Len(Top.parts) /\ MatchAt(Top, Top.i))
             => /\ stack' = SetTop(Finish(Top, Return(PyBool(TRUE))))
                /\ dnsLog' = dnsLog
       /\ Matched => UnwindsTrue]_vars

\* C22 happens: the call returned True at the first part, and the malformed
\* network after it was not evaluated.
C22_Reached ==
    /\ SpfDone
    /\ RecordArg = "v=spf1 ip4:192.0.2.0/24 ip4:bogus"
    /\ Ipv4Arg = PyStr("192.0.2.1")
    /\ DomainArg = PyNone
    /\ outcome = Return(PyBool(TRUE))
    /\ dnsLog = << >>

\* A call on a record whose mechanisms are includes of a.example, whose
\* record includes b.example, whose record includes a.example; the domain
\* under test is neither, and no mechanism holds a candidate.
CycleCall ==
    /\ call.fn = "spf_check"
    /\ ValidSpfRecord
    /\ Len(Tokens) >= 2
    /\ Tokens[2] = "include:a.example"
    /\ \A i \in 2..Len(Tokens) : Tokens[i] \in {"include:a.example", "-all"}

\* The lookups of the first descent into the cycle, one at each depth.
CycleDescent ==
    /\ Len(dnsLog) >= MaxDepth
    /\ \A k \in 1..MaxDepth :
          dnsLog[k] = << "TXT", IF k % 2 = 1 THEN "a.example" ELSE "b.example" >>

\* How far a frame has come: its position in the function, and in the
\* loops over the parts and over the answers of a lookup.
AnswerSpan == MaxTokens + 2

ProgressTop == 4 + (MaxTokens + 2) * AnswerSpan

Progress(f) ==
    CASE f.pc = "resolve" -> 1
      [] f.pc = "parse"   -> 2
      [] f.pc = "token"   -> 3 + (f.i - 2) * AnswerSpan
      [] f.pc = "answers" -> 3 + (f.i - 2) * AnswerSpan + f.j
      [] f.pc = "done"    -> ProgressTop

RECURSIVE Pow(_, _)
Pow(b, n) == IF n = 0 THEN 1 ELSE b * Pow(b, n - 1)

\* The frames of st from depth d on, read as the digits of a number: an
\* outer frame counts for more than all the frames inside it.
RECURSIVE RankFrom(_, _)
RankFrom(st, d) ==
    IF d > Len(st) THEN 0
    ELSE Progress(st[d]) * Pow(ProgressTop + 1, MaxDepth - d) + RankFrom(st, d + 1)

\* A measure of the work done; the ended call has the largest.
Rank(st) == IF st = << >> THEN Pow(ProgressTop + 1, MaxDepth) ELSE RankFrom(st, 1)

\* The call has ended, or the frame on top is at a position with a step.
CanStep(st, out) ==
    IF st = << >> THEN out # Pending
    ELSE /\ out = Pending
         /\ st[Len(st)].pc \in {"resolve", "parse", "token", "answers", "done"}
         /\ Len(st) <= MaxDepth

\* C23 as the claim has it: a call on an include cycle never reaches a
\* result.
C23_NeverEnds == CycleCall => ~SpfDone

\* C23: spf_check carries no depth bound and no set of visited domains, so
\* a call on an include cycle descends, one TXT lookup at each depth, to
\* the interpreter's frame limit; the RecursionError raised there is caught
\* by the handler of the include branch, and the call ends on its own,
\* returning a value that is not True.  Every step adds to a measure that
\* is bounded, and every state before the end has a step.
C23_CycleEndsAtFrameLimit ==
    [][/\ CanStep(stack, outcome) /\ CanStep(stack', outcome')
       /\ Rank(stack) < Rank(stack')
       /\ Rank(stack') <= Pow(ProgressTop + 1, MaxDepth)
       /\ (CycleCall /\ outcome' # Pending) =>
             /\ CycleDescent'
             /\ outcome' \in {Return(PyBool(FALSE)), Return(PyNone)}]_vars

\* C23 happens: the call on the cycle returned False after one lookup at
\* each depth.
C23_Reached ==
    /\ CycleCall
    /\ RecordArg = "v=spf1 include:a.example -all"
    /\ outcome = Return(PyBool(FALSE))
    /\ Len(dnsLog) = MaxDepth

\* The addresses of a domain were asked for.
Resolved == \E k \in 1..Len(dnsLog) : dnsLog[k][1] = "A"

\* C24: a call that supplies a candidate resolves no addresses, and every
\* frame of the evaluation, the recursive ones included, tests the
\* candidates the caller supplied.
C24_SuppliedCandidatesKept ==
    (call.fn = "spf_check" /\ (Truthy(Ipv4Arg) \/ Truthy(Ipv6Arg))) =>
        /\ ~Resolved
        /\ \A d \in 1..Len(stack) :
              /\ Truthy(Ipv4Arg) => stack[d].ipv4 = Ipv4Arg
              /\ Truthy(Ipv6Arg) => stack[d].ipv6 = Ipv6Arg

\* A call without a domain, with candidates of one family only, on a valid
\* record of ip4:/ip6: mechanisms and -all.
OneFamilyCall ==
    /\ SpfDone
    /\ DomainArg = PyNone
    /\ ValidSpfRecord
    /\ (Ipv4Arg = PyNone) # (Ipv6Arg = PyNone)
    /\ \A i \in 2..Len(Tokens) :
          Tokens[i] = "-all" \/ StartsWith(Tokens[i], "ip4:") \/ StartsWith(Tokens[i], "ip6:")

\* C25: a call with candidates of one family only does not raise at a
\* mechanism of the other family: it returns, True when a mechanism holds a
\* candidate, and False when none does and the record has -all.
C25_MissingFamilySkipped ==
    OneFamilyCall =>
        /\ outcome.k = "return"
        /\ (\E i \in 2..Len(Tokens) : TokenMatches(i)) => outcome.v = PyBool(TRUE)
        /\ ((\A i \in 2..Len(Tokens) : ~TokenMatches(i)) /\ HasAll) => outcome.v = PyBool(FALSE)

\* The construction is over and went past the DMARC check with an SPF
\* record at hand.
SpfStageDone ==
    /\ CtorDone
    /\ Passes(Self.dmarc, validate_dmarc_record(PyStr(Self.dmarc[1])))
    /\ Self.spf # << >>

\* C26: whatever class get_address_type gives the mail server, the SPF
\* stage of _validate_auth_setup ends with the check passing or with the
\* SPF failure, not with an error of the call of spf_check.
C26_ClassificationIsAnArgument ==
    SpfStageDone =>
        \/ Passes(Self.spf, Self.spf_result)
        \/ outcome = Raise("Exception", "SPF record is not valid")

(***************************************************************************)
(* Claims about the img elements the rewrite passes over.                  *)
(***************************************************************************)
\* Element i came with the marker of a processed element.
Marked(i) == "data-smtpymailer" \in DOMAIN Before(i)

NoSrc(i) == "src" \notin DOMAIN Before(i)

Requested(i) == \E k \in 1..Len(netLog) : netLog[k].idx = i

\* C27: in both modes an img element that came with the data-smtpymailer
\* marker, or without a src, is never requested, and when the call is over
\* it has the attributes it had and no part was attached for it; so a
\* second run over the output of a first one, all of whose embedded
\* elements carry the marker, changes nothing.
C27_MarkedOrSourcelessUntouched ==
    (IsCid \/ IsBase64) =>
        \A i \in ImgIndices :
            (Marked(i) \/ NoSrc(i)) =>
                /\ ~Requested(i)
                /\ ImgDone => (After(i) = Before(i) /\ PartsOf(i) = {})

\* The src of element i is an http(s) URL for which mimetypes guesses no
\* type.
Extensionless(i) == IsHttp(SrcBefore(i)) /\ ~IsStr(guess_type(SrcBefore(i)))

\* C28: in both modes, when the call is over and the bytes of an img
\* element whose URL has no guessable MIME type arrived, and its directives
\* are supported ones, the call was not ended by an error of that element:
\* the call did not raise AttributeError, the element is embedded or has
\* the attributes it had, and the element after it was processed.
C28_ExtensionlessImageNeverAborts ==
    ImgDone =>
        \A i \in ImgIndices :
            (Extensionless(i) /\ Retrieved(i) /\ ~Unsupported(Before(i))) =>
                /\ ~Raised("AttributeError")
                /\ Embedded(After(i)) \/ After(i) = Before(i)
                /\ (i + 1) \in ImgIndices => Visited(i + 1)

(***************************************************************************)
(* Claims about the order of the steps of send_email.                      *)
(***************************************************************************)
\* The calls of send_email, in the order of lines 556-585.
Stages ==
    << "validate_send_email", "build_all_recipients_and_validate",
       "_construct_base_message", "make_html_content", "_make_plain_message",
       "_make_html_message", "_add_attachments", "_send_message" >>

\* The place in that order of the call a running send_email has come to.
StageOf(st) == CHOOSE n \in 1..Len(Stages) : Stages[n] = st[1].pc

\* C29: every step of a send_email call either completes the call it is at
\* and comes to the next one in the order validate_send_email, recipient
\* validation, base message, html content, plain part, html part with the
\* image rewriting, attachments, _send_message, with nothing handed to the
\* server so far; or it is a call before _send_message that raises, which
\* ends send_email with nothing handed to the server; or it is
\* _send_message, which hands the message to the server once.
C29_SendsOnceAfterEveryStep ==
    [][call.fn = "send_email" =>
          /\ stack # << >>
          /\ Cardinality(Sent') <= 1
          /\ \/ /\ stack' # << >>
                /\ StageOf(stack') = StageOf(stack) + 1
                /\ outcome' = Pending
                /\ Sent' = {}
             \/ /\ stack' = << >>
                /\ StageOf(stack) < Len(Stages)
                /\ outcome'.k = "raise"
                /\ Sent' = {}
             \/ /\ stack' = << >>
                /\ StageOf(stack) = Len(Stages)
                /\ Sent = {}
                /\ Cardinality(Sent') = 1]_vars

\* C29 happens: a message whose images were attached and which has an
\* attachment was handed to the server.
C29_Reached ==
    /\ SendDone
    /\ Sent # {}
    /\ SendArg(7) = PyStr("cid")
    /\ Len(message) = 3
    /\ message[2].headers["Content-Disposition"] = "inline"

(***************************************************************************)
(* Claims about the conversion of an image.                                *)
(***************************************************************************)
\* A name of a format, with jpeg and jpg taken as one.
SameFormat(format) == IF format = "jpeg" THEN "jpg" ELSE format

RequestedFormat(i) == SameFormat(Lower(Before(i)["data-convert"]))

DetectedFormat(i) == SameFormat(SplitOn(StrOf(guess_type(SrcBefore(i))), "/")[2])

\* C30: when the bytes of an img element with supported directives and a
\* locator of a known type arrived, change_image_type hands back the bytes
\* and the MIME type it was given if the format data-convert names is the
\* format of the locator, jpg and jpeg being one format, and then the
\* content identifier of a cid-mode call is the digest of the bytes that
\* arrived followed by the index; otherwise it hands back other bytes and
\* the MIME type of the format that was named.
C30_ReencodedIffFormatDiffers ==
    (IsCid \/ IsBase64) =>
        \A i \in ImgIndices :
            (/\ Retrieved(i)
             /\ "data-convert" \in DOMAIN Before(i)
             /\ ~Unsupported(Before(i))
             /\ ~Extensionless(i)) =>
                IF RequestedFormat(i) = DetectedFormat(i)
                THEN /\ FinalOf(i) = Changed(Fetched(i), guess_type(SrcBefore(i)))
                     /\ (ImgReturned /\ IsCid) =>
                            CidOf(i) = md5(Fetched(i)) \o IntStr(i)
                ELSE /\ FinalOf(i).k = "return"
                     /\ FinalOf(i).v[1] # Fetched(i)
                     /\ FinalOf(i).v[2]
                            = PyStr("image/" \o Replace(RequestedFormat(i), "jpg", "jpeg"))

=============================================================================
